---------------------------- MODULE Spec2Model ----------------------------
(***************************************************************************)
(* A model of the DOCX to HTML converter (src/convert_docx_to_html.py,     *)
(* src/util.py, src/docx_to_html.py).                                      *)
(*                                                                         *)
(* Python strings are modelled as sequences of one-character strings, so   *)
(* that formatting, parsing and regular-expression steps are computed and  *)
(* not assumed.  A Python dict is a function whose DOMAIN is its key set;  *)
(* where the iteration order of a dict matters it is a sequence of         *)
(* key/value records in insertion order.                                   *)
(*                                                                         *)
(* The module holds one specification per subsystem; each leaves the       *)
(* variables of the other subsystems unchanged.                            *)
(***************************************************************************)
EXTENDS Integers, Sequences, FiniteSets, TLC

VARIABLES
    list_counters,   \* self.list_counters: numId -> (ilvl -> counter)
    emitted,         \* the list items rendered so far: numId, ilvl, result
    number,          \* the result of the last _get_list_number call
    call,            \* the arguments of the last _get_list_number call
    headings_map,    \* self.headings_map: cleaned heading text -> anchor id,
                     \* in insertion order
    paragraph_ids,   \* self.paragraph_ids: paragraph element -> anchor id
    scanned,         \* the cleaned text of each heading paragraph scanned
    title_text,      \* the argument of the last _find_heading_id call
    found,           \* its result
    style_defs,      \* style_defs: style id -> based_on ("" for None)
    style_inheritance, \* self.style_inheritance: style id -> chain
    style_pc,        \* position in the chain-building loops of lines 305-316
    style_idx,       \* index of the style the for loop is at
    chain,           \* the local chain
    based_on,        \* the local based_on
    SCALE,           \* DocxUtils.SCALE, a class attribute: <<num, den>>
    section,         \* converter -> page geometry of its document (EMU)
    phase,           \* converter -> "new", "constructed" or "converted"
    pixels,          \* converter -> the geometry value its convert() computed
    style_props,     \* style id -> the pPr and rPr of the style definition
    resolve_call,    \* the arguments of the last _get_resolved_style_css call
    resolved,        \* its result
    first_call,      \* the arguments of the first call
    first_css,       \* the result of the first call
    interleaved,     \* whether another resolution followed the first call
    toc_para,        \* the paragraph last handed to _is_toc_paragraph
    toc_result,      \* what _is_toc_paragraph returned for it
    toc_link,        \* the link markup of that paragraph
    toc_html,        \* the TOC paragraph rendered from it
    toc_titles,      \* self.toc_titles
    html_parts,      \* the roles of the body elements rendered so far
    elem,            \* the body element last handed to its handler
    result,          \* what the handler returned or raised
    walk_pc,         \* where convert() is
    drawings,        \* the anchored drawings of a paragraph, in document order
    all_items,       \* all_items of extract_images_from_paragraph, sorted
    groups,          \* its groups, each a list of positions in all_items
    final_results,   \* what extract_images_from_paragraph returns
    images_html,     \* the roles process_paragraph renders for them
    letter_num,      \* the argument of number_to_letter
    lower_result,    \* number_to_letter(num, True), empty before the call
    upper_result,    \* number_to_letter(num, False), empty before the call
    list_paras,      \* the list paragraphs process_paragraph has rendered, in order
    tbl,             \* the w:tbl handed to process_table, a list of rows of w:tc
    tds,             \* the td elements process_table emitted, in order
    rels,            \* the relationships of the document part, in order
    link_elem,       \* the hyperlink element of the last call
    link_text,       \* the text of the last call
    link_before,     \* the number of fragments before the last call
    link_parts,      \* the inline fragments rendered so far
    docx,            \* the input file main is given
    run_pc,          \* where main and the converter are
    log_file,        \* the state of the diagnostic log file
    walked,          \* the body elements the main walk has rendered
    run_error,       \* the exception in flight, if any
    exit_code,       \* the exit status of main
    document,        \* the body paragraphs convert() is given, in order
    conv_pc,         \* the pass convert() is in
    conv_idx,        \* the position of the next paragraph of that pass
    rendered,        \* the fragments the main walk has emitted, in order
    drawing_elem,    \* the anchored drawing whose nested shape is positioned
    textbox_elem,    \* the shape nested in it
    display_size,    \* the displayed size of the drawing, in px
    anchor_offsets,  \* the anchor offset of the drawing, in px
    position,        \* what _get_textbox_position returns for the shape
    body_element,    \* the container handed to _traverse_document_body
    frames,          \* one frame per active call of _traverse_document_body
    visited,         \* what the walk did with each child, in the order it did it
    tree_pc,         \* walking, returned or raised
    body_html        \* the fragments the outermost call returned

listVars == <<list_counters, emitted, number, call>>
headVars == <<headings_map, paragraph_ids, scanned, title_text, found>>

styleVars == <<style_defs, style_inheritance, style_pc, style_idx, chain, based_on>>

scaleVars == <<SCALE, section, phase, pixels>>

resolveVars == <<style_props, resolve_call, resolved, first_call, first_css,
                 interleaved>>

tocVars == <<toc_para, toc_result, toc_link, toc_html, toc_titles>>

walkVars == <<html_parts, elem, result, walk_pc>>

imageVars == <<drawings, all_items, groups, final_results, images_html>>

letterVars == <<letter_num, lower_result, upper_result>>

paraVars == <<list_paras>>

tableVars == <<tbl, tds>>

linkVars == <<rels, link_elem, link_text, link_before, link_parts>>

runVars == <<docx, run_pc, log_file, walked, run_error, exit_code>>

convVars == <<document, conv_pc, conv_idx, rendered>>

geomVars == <<drawing_elem, textbox_elem, display_size, anchor_offsets, position>>

treeVars == <<body_element, frames, visited, tree_pc, body_html>>

vars == <<listVars, headVars, styleVars, scaleVars, tocVars, walkVars, resolveVars, imageVars, letterVars, paraVars, tableVars, linkVars, runVars, convVars, geomVars, treeVars>>

\* What each subsystem leaves alone.
OthersOfList == <<headVars, styleVars, scaleVars, tocVars, walkVars, resolveVars, imageVars, letterVars, paraVars, tableVars, linkVars, runVars, convVars, geomVars, treeVars>>
OthersOfHead == <<listVars, styleVars, scaleVars, tocVars, walkVars, resolveVars, imageVars, letterVars, paraVars, tableVars, linkVars, runVars, convVars, geomVars, treeVars>>
OthersOfStyle == <<listVars, headVars, scaleVars, tocVars, walkVars, resolveVars, imageVars, letterVars, paraVars, tableVars, linkVars, runVars, convVars, geomVars, treeVars>>
OthersOfScale == <<listVars, headVars, styleVars, tocVars, walkVars, resolveVars, imageVars, letterVars, paraVars, tableVars, linkVars, runVars, convVars, geomVars, treeVars>>
OthersOfToc == <<listVars, styleVars, scaleVars, walkVars, resolveVars, imageVars, letterVars, paraVars, tableVars, linkVars, runVars, convVars, geomVars, treeVars>>
OthersOfResolve == <<listVars, headVars, scaleVars, tocVars, walkVars, imageVars, letterVars, paraVars, tableVars, linkVars, runVars, convVars, geomVars, treeVars>>
OthersOfWalk == <<listVars, headVars, styleVars, scaleVars, tocVars, resolveVars, imageVars, letterVars, paraVars, tableVars, linkVars, runVars, convVars, geomVars, treeVars>>
OthersOfImage == <<listVars, headVars, styleVars, scaleVars, tocVars, walkVars, resolveVars, letterVars, paraVars, tableVars, linkVars, runVars, convVars, geomVars, treeVars>>
OthersOfLetter == <<listVars, headVars, styleVars, scaleVars, tocVars, walkVars, resolveVars, imageVars, paraVars, tableVars, linkVars, runVars, convVars, geomVars, treeVars>>
OthersOfPara == <<headVars, styleVars, scaleVars, tocVars, walkVars, resolveVars, imageVars, letterVars, tableVars, linkVars, runVars, convVars, geomVars, treeVars>>
OthersOfTable == <<listVars, headVars, styleVars, scaleVars, tocVars, walkVars, resolveVars, imageVars, letterVars, paraVars, linkVars, runVars, convVars, geomVars, treeVars>>
OthersOfLink == <<listVars, headVars, styleVars, scaleVars, tocVars, walkVars, resolveVars, imageVars, letterVars, paraVars, tableVars, runVars, convVars, geomVars, treeVars>>
OthersOfRun == <<listVars, headVars, styleVars, scaleVars, tocVars, walkVars, resolveVars, imageVars, letterVars, paraVars, tableVars, linkVars, convVars, geomVars, treeVars>>
OthersOfConvert == <<emitted, number, call, scanned, title_text, found, toc_para, toc_result, toc_link, toc_html, styleVars, scaleVars, walkVars, resolveVars, imageVars, letterVars, paraVars, tableVars, linkVars, runVars, geomVars, treeVars>>
OthersOfGeometry == <<listVars, headVars, styleVars, scaleVars, tocVars, walkVars, resolveVars, imageVars, letterVars, paraVars, tableVars, linkVars, runVars, convVars, treeVars>>
OthersOfTree == <<listVars, headVars, styleVars, scaleVars, tocVars, walkVars, resolveVars, imageVars, letterVars, paraVars, tableVars, linkVars, runVars, convVars, geomVars>>

(***************************************************************************)
(* Strings                                                                 *)
(***************************************************************************)
Digits == <<"0", "1", "2", "3", "4", "5", "6", "7", "8", "9">>

IsDigit(c) == \E i \in 1..10 : Digits[i] = c

DigitValue(c) == (CHOOSE i \in 1..10 : Digits[i] = c) - 1

\* str(n) for n >= 0
RECURSIVE Str(_)
Str(n) == IF n < 10 THEN <<Digits[n + 1]>>
          ELSE Str(n \div 10) \o <<Digits[(n % 10) + 1]>>

\* sep.join(parts)
RECURSIVE Join(_, _)
Join(parts, sep) ==
    IF parts = <<>> THEN <<>>
    ELSE IF Len(parts) = 1 THEN parts[1]
    ELSE parts[1] \o sep \o Join(Tail(parts), sep)

\* The results of an operation that returns a string, returns None or raises.
StrVal(s) == [kind |-> "str", val |-> s]
NoneVal == [kind |-> "none", val |-> <<>>]
ValueError == [kind |-> "ValueError", val |-> <<>>]

\* int(s) on a string: the value of a non-empty digit string; on any other
\* string of the alphabet used here (digits and ".") int raises ValueError.
RECURSIVE DigitsValue(_)
DigitsValue(s) == IF s = <<>> THEN 0
                  ELSE DigitsValue(SubSeq(s, 1, Len(s) - 1)) * 10 + DigitValue(s[Len(s)])

IntParses(s) == s # <<>> /\ \A i \in 1..Len(s) : IsDigit(s[i])

(***************************************************************************)
(* Ordinal formatting (src/util.py)                                        *)
(***************************************************************************)
LowerLetters == <<"a", "b", "c", "d", "e", "f", "g", "h", "i", "j", "k", "l", "m",
                  "n", "o", "p", "q", "r", "s", "t", "u", "v", "w", "x", "y", "z">>
UpperLetters == <<"A", "B", "C", "D", "E", "F", "G", "H", "I", "J", "K", "L", "M",
                  "N", "O", "P", "Q", "R", "S", "T", "U", "V", "W", "X", "Y", "Z">>

\* The loop of util.py lines 82-85 without num -= 1: base 26 with a zero
\* digit.
RECURSIVE number_to_letter_zero_digit(_, _)
number_to_letter_zero_digit(n, lower) ==
    IF n > 0
    THEN number_to_letter_zero_digit(n \div 26, lower)
            \o <<IF lower THEN LowerLetters[(n % 26) + 1] ELSE UpperLetters[(n % 26) + 1]>>
    ELSE <<>>

\* DocxUtils.number_to_letter: while num > 0: num -= 1; prepend chr(base + num % 26);
\* num //= 26
RECURSIVE number_to_letter(_, _)
number_to_letter(num, lower) ==
    IF num > 0
    THEN LET m == num - 1
             c == IF lower THEN LowerLetters[(m % 26) + 1] ELSE UpperLetters[(m % 26) + 1]
         IN  number_to_letter(m \div 26, lower) \o <<c>>
    ELSE <<>>

RomanVal == <<1000, 900, 500, 400, 100, 90, 50, 40, 10, 9, 5, 4, 1>>
RomanSybUpper == << <<"M">>, <<"C", "M">>, <<"D">>, <<"C", "D">>, <<"C">>, <<"X", "C">>,
                    <<"L">>, <<"X", "L">>, <<"X">>, <<"I", "X">>, <<"V">>, <<"I", "V">>,
                    <<"I">> >>
RomanSybLower == << <<"m">>, <<"c", "m">>, <<"d">>, <<"c", "d">>, <<"c">>, <<"x", "c">>,
                    <<"l">>, <<"x", "l">>, <<"x">>, <<"i", "x">>, <<"v">>, <<"i", "v">>,
                    <<"i">> >>

\* DocxUtils.number_to_roman: the greedy loop over val/syb; .lower() when lower.
RECURSIVE RomanFrom(_, _, _)
RomanFrom(num, i, lower) ==
    IF num > 0
    THEN IF num >= RomanVal[i]
         THEN (IF lower THEN RomanSybLower[i] ELSE RomanSybUpper[i])
              \o RomanFrom(num - RomanVal[i], i, lower)
         ELSE RomanFrom(num, i + 1, lower)
    ELSE <<>>

number_to_roman(num, lower) == RomanFrom(num, 1, lower)

(***************************************************************************)
(* List numbering (DocxToHTMLConverter._get_list_number)                   *)
(***************************************************************************)
MaxLevel == 2     \* indent levels 0..MaxLevel
MaxItems == 5     \* list items rendered in one run of ListSpec
MaxCount == 3     \* counter values reached in one run of NumSpec

NumIds == {1, 2}
Levels == 0..MaxLevel
OrdinalFormats == {"decimal", "lowerLetter", "upperLetter", "lowerRoman", "upperRoman"}
\* numFmt as parse_list_from_xml passes it: a format of the numbering
\* definition, "bullet", or "None" when no definition or level was found.
NumFmts == OrdinalFormats \cup {"bullet", "None"}

\* lines 395-400: the counter table after the two initialisations
InitCounter(counters, numId, ilvl) ==
    LET c1 == IF numId \in DOMAIN counters THEN counters
              ELSE [n \in DOMAIN counters \cup {numId} |->
                        IF n = numId THEN <<>> ELSE counters[n]]
        lv == c1[numId]
        lv2 == IF ilvl \in DOMAIN lv THEN lv
               ELSE [l \in DOMAIN lv \cup {ilvl} |-> IF l = ilvl THEN 0 ELSE lv[l]]
    IN  [c1 EXCEPT ![numId] = lv2]

\* lines 406-416: the dot-joined number of level ilvl
NumberText(lv, ilvl) ==
    IF ilvl > 0
    THEN Join([l \in 1..(ilvl + 1) |->
                  IF (l - 1) \in DOMAIN lv THEN Str(lv[l - 1]) ELSE <<"1">>], <<".">>)
    ELSE Str(lv[ilvl])

\* lines 418-430: int(number) raises ValueError on a dotted number
FormatNumber(text, numFmt) ==
    IF numFmt = "decimal" THEN StrVal(text)
    ELSE IF numFmt \in {"lowerLetter", "upperLetter", "lowerRoman", "upperRoman"}
    THEN IF ~IntParses(text) THEN ValueError
         ELSE LET n == DigitsValue(text)
              IN  CASE numFmt = "lowerLetter" -> StrVal(number_to_letter(n, TRUE))
                    [] numFmt = "upperLetter" -> StrVal(number_to_letter(n, FALSE))
                    [] numFmt = "lowerRoman" -> StrVal(number_to_roman(n, TRUE))
                    [] numFmt = "upperRoman" -> StrVal(number_to_roman(n, FALSE))
    ELSE StrVal(text)

\* _get_list_number(numId, ilvl, numFmt): the new counter table and the result.
\* The increment of line 404 is kept when line 422-428 raises.
get_list_number(counters, numId, ilvl, numFmt) ==
    LET c0 == InitCounter(counters, numId, ilvl)
    IN  IF numFmt # "None" /\ numFmt # "bullet"
        THEN LET c1 == [c0 EXCEPT ![numId][ilvl] = @ + 1]
             IN  [counters |-> c1,
                  result |-> FormatNumber(NumberText(c1[numId], ilvl), numFmt)]
        ELSE [counters |-> c0, result |-> NoneVal]

\* _reset_list_counter(numId, ilvl): deletes the counters of level ilvl and
\* deeper.  No statement of the program calls it, so no action uses it.
reset_list_counter(counters, numId, ilvl) ==
    IF numId \in DOMAIN counters
    THEN [counters EXCEPT ![numId] =
             [l \in {k \in DOMAIN counters[numId] : k < ilvl} |-> counters[numId][l]]]
    ELSE counters

NoCall == [numId |-> 0, ilvl |-> 0, numFmt |-> "None"]

ListInit ==
    /\ list_counters = <<>>
    /\ emitted = <<>>
    /\ number = NoneVal
    /\ call = NoCall

\* One ordinal (decimal) list paragraph of the main walk: process_paragraph
\* lines 2578-2611 call _get_list_number once and emit the number.
RenderListItem(numId, ilvl) ==
    /\ Len(emitted) < MaxItems
    /\ LET r == get_list_number(list_counters, numId, ilvl, "decimal")
       IN  /\ list_counters' = r.counters
           /\ number' = r.result
           /\ call' = [numId |-> numId, ilvl |-> ilvl, numFmt |-> "decimal"]
           /\ emitted' = Append(emitted, [numId |-> numId, ilvl |-> ilvl,
                                          number |-> r.result])
    /\ UNCHANGED OthersOfList

ListNext == \E numId \in NumIds, ilvl \in Levels : RenderListItem(numId, ilvl)

\* The items of one list, in the order rendered.
ItemsOf(numId) == SelectSeq(emitted, LAMBDA e : e.numId = numId)
LevelsOf(numId) == [i \in 1..Len(ItemsOf(numId)) |-> ItemsOf(numId)[i].ilvl]
NumbersOf(numId) == [i \in 1..Len(ItemsOf(numId)) |-> ItemsOf(numId)[i].number]

\* C1 (as claimed): for one decimal list, items visited at levels
\* (L0, L1, L1, L0, L1) are numbered 1, 1.1, 1.2, 2, 2.1: the deeper counter
\* restarts at 1 after its parent level has advanced.
C1_RestartAfterParentAdvances ==
    \A numId \in NumIds :
        LevelsOf(numId) = <<0, 1, 1, 0, 1>> =>
            NumbersOf(numId) = << StrVal(<<"1">>), StrVal(<<"1", ".", "1">>),
                                  StrVal(<<"1", ".", "2">>), StrVal(<<"2">>),
                                  StrVal(<<"2", ".", "1">>) >>

(***************************************************************************)
(* nextNumber over every format: _get_list_number called with any numFmt   *)
(***************************************************************************)
NumListId == 1

\* A raised ValueError leaves process_paragraph and ends the run; a counter
\* is not driven past MaxCount.
NextNumber(ilvl, numFmt) ==
    /\ number.kind # "ValueError"
    /\ (NumListId \in DOMAIN list_counters /\ ilvl \in DOMAIN list_counters[NumListId])
          => list_counters[NumListId][ilvl] < MaxCount
    /\ LET r == get_list_number(list_counters, NumListId, ilvl, numFmt)
       IN  /\ list_counters' = r.counters
           /\ number' = r.result
           /\ call' = [numId |-> NumListId, ilvl |-> ilvl, numFmt |-> numFmt]
    /\ UNCHANGED <<emitted, OthersOfList>>

NumNext == \E ilvl \in Levels, numFmt \in NumFmts : NextNumber(ilvl, numFmt)

\* C6 (as claimed): nextNumber returns a string for every ordinal format at
\* every level >= 0, also at level > 0; it never fails.
C6_NextNumberReturnsString ==
    call.numFmt \in OrdinalFormats => number.kind = "str"

(***************************************************************************)
(* Heading anchors (DocxToHTMLConverter._generate_heading_id and the       *)
(* heading pre-scan _scan_headings_recursive)                              *)
(***************************************************************************)
MaxHeadings == 3   \* heading paragraphs in one document

IsLetter(c) == \E i \in 1..26 : LowerLetters[i] = c \/ UpperLetters[i] = c

\* \w of a Python str pattern, over the characters used here
IsWordChar(c) == IsLetter(c) \/ IsDigit(c) \/ c = "_"

IsSpace(c) == c = " " \/ c = "\t"

\* str.strip()
RECURSIVE LStrip(_)
LStrip(s) == IF s # <<>> /\ IsSpace(s[1]) THEN LStrip(Tail(s)) ELSE s

RECURSIVE RStrip(_)
RStrip(s) == IF s # <<>> /\ IsSpace(s[Len(s)]) THEN RStrip(SubSeq(s, 1, Len(s) - 1)) ELSE s

Strip(s) == LStrip(RStrip(s))

\* line 1118: re.sub(r'[^\w\u4e00-\u9fff-]', '_', heading_text)
ReplaceSpecial(s) ==
    [i \in 1..Len(s) |-> IF IsWordChar(s[i]) \/ s[i] = "-" THEN s[i] ELSE "_"]

\* line 1119: re.sub(r'_+', '_', safe_text)
RECURSIVE CollapseUnderscores(_)
CollapseUnderscores(s) ==
    IF Len(s) < 2 THEN s
    ELSE IF s[1] = "_" /\ s[2] = "_" THEN CollapseUnderscores(Tail(s))
    ELSE <<s[1]>> \o CollapseUnderscores(Tail(s))

\* line 1119: .strip('_')
RECURSIVE StripUnderscores(_)
StripUnderscores(s) ==
    IF s # <<>> /\ s[1] = "_" THEN StripUnderscores(Tail(s))
    ELSE IF s # <<>> /\ s[Len(s)] = "_" THEN StripUnderscores(SubSeq(s, 1, Len(s) - 1))
    ELSE s

HeadingLiteral == <<"h", "e", "a", "d", "i", "n", "g">>

\* lines 1115-1123: the base id of a heading text
SafeText(heading_text) ==
    LET safe == StripUnderscores(CollapseUnderscores(ReplaceSpecial(Strip(heading_text))))
    IN  IF safe = <<>> THEN HeadingLiteral ELSE safe

\* self.headings_map.values()
MapValues(map) == {map[i].id : i \in 1..Len(map)}
MapKeys(map) == {map[i].text : i \in 1..Len(map)}

\* lines 1126-1134: the first of base, base_1, base_2, ... that is no value of
\* headings_map
RECURSIVE FirstFreeId(_, _, _)
FirstFreeId(heading_id, base_id, counter) ==
    IF heading_id \in MapValues(headings_map)
    THEN FirstFreeId(base_id \o <<"_">> \o Str(counter), base_id, counter + 1)
    ELSE heading_id

generate_heading_id(heading_text) ==
    FirstFreeId(SafeText(heading_text), SafeText(heading_text), 1)

\* self.headings_map[key] = value: a new key goes last, a known key keeps its
\* place and takes the new value
DictSet(map, key, value) ==
    IF key \in MapKeys(map)
    THEN [i \in 1..Len(map) |-> IF map[i].text = key
                                THEN [text |-> key, id |-> value] ELSE map[i]]
    ELSE Append(map, [text |-> key, id |-> value])

\* The cleaned texts of the heading paragraphs of the documents checked.
HeadingTexts ==
    { <<"f", "o", "o">>, <<"f", "o", "o", "_", "1">>, <<"a", " ", "b">>,
      <<"a", ".", "b">>, <<"a", "_", "b">>, <<"!">>, HeadingLiteral }

NotCalled == [kind |-> "not called", val |-> <<>>]

HeadInit ==
    /\ headings_map = <<>>
    /\ paragraph_ids = <<>>
    /\ scanned = <<>>
    /\ title_text = <<>>
    /\ found = NotCalled

\* _scan_headings_recursive, lines 3220-3231, for the next heading paragraph
\* of the body, whose cleaned text is heading_text_clean.
ScanHeading(heading_text_clean) ==
    /\ Len(scanned) < MaxHeadings
    /\ UNCHANGED <<title_text, found>>
    /\ LET heading_id == generate_heading_id(heading_text_clean)
       IN  /\ headings_map' = IF Strip(heading_text_clean) # <<>>
                              THEN DictSet(headings_map, Strip(heading_text_clean),
                                           heading_id)
                              ELSE headings_map
           /\ paragraph_ids' = Append(paragraph_ids, heading_id)
    /\ scanned' = Append(scanned, heading_text_clean)
    /\ UNCHANGED OthersOfHead

HeadNext == \E t \in HeadingTexts : ScanHeading(t)

\* C2 (as claimed): every heading registered by the pre-scan receives an
\* anchor no other heading has, and two headings with the cleaned text foo
\* receive foo and foo_1.
C2_AnchorsUnique ==
    /\ \A i, j \in 1..Len(paragraph_ids) :
           i # j => paragraph_ids[i] # paragraph_ids[j]
    /\ (Len(scanned) >= 2 /\ scanned[1] = <<"f", "o", "o">> /\ scanned[2] = <<"f", "o", "o">>)
           => /\ paragraph_ids[1] = <<"f", "o", "o">>
              /\ paragraph_ids[2] = <<"f", "o", "o", "_", "1">>

(***************************************************************************)
(* TOC target lookup (DocxToHTMLConverter._find_heading_id)                *)
(***************************************************************************)
MaxRegistered == 2   \* headings registered before a lookup

\* s.replace(' ', '').replace('\t', '')
RemoveSpacesTabs(s) == SelectSeq(s, LAMBDA c : c # " " /\ c # "\t")

\* a in b, for strings
Contains(a, b) ==
    \E i \in 0..(Len(b) - Len(a)) : SubSeq(b, i + 1, i + Len(a)) = a

\* re.findall(r'[\u4e00-\u9fff]+|[a-zA-Z]+', s) over the characters used
\* here, which hold no CJK character: the maximal runs of ASCII letters
RECURSIVE KeywordsFrom(_, _, _)
KeywordsFrom(s, i, cur) ==
    IF i > Len(s) THEN (IF cur = <<>> THEN <<>> ELSE <<cur>>)
    ELSE IF IsLetter(s[i]) THEN KeywordsFrom(s, i + 1, Append(cur, s[i]))
    ELSE (IF cur = <<>> THEN <<>> ELSE <<cur>>) \o KeywordsFrom(s, i + 1, <<>>)

Keywords(s) == KeywordsFrom(s, 1, <<>>)

SeqToSet(q) == {q[i] : i \in 1..Len(q)}

SetMin(S) == CHOOSE x \in S : \A y \in S : x <= y

\* lines 1150-1154: the entries equal to the title once spaces and tabs are
\* removed
SpaceInsensitiveHits(map, title) ==
    {i \in 1..Len(map) : RemoveSpacesTabs(map[i].text) = RemoveSpacesTabs(title)}

\* lines 1156-1159
ContainmentHits(map, title) ==
    {i \in 1..Len(map) : \/ Contains(Strip(title), Strip(map[i].text))
                         \/ Contains(Strip(map[i].text), Strip(title))}

\* lines 1161-1170
KeywordHits(map, title) ==
    LET title_keywords == Keywords(title)
    IN  IF title_keywords = <<>> THEN {}
        ELSE {i \in 1..Len(map) :
                 LET heading_keywords == Keywords(map[i].text)
                     common_keywords == SeqToSet(title_keywords)
                                          \cap SeqToSet(heading_keywords)
                 IN  /\ heading_keywords # <<>>
                     /\ \/ Cardinality(common_keywords) >= 2
                        \/ (Cardinality(common_keywords) >= 1
                            /\ Len(title_keywords) <= 2)}

\* A for loop over headings_map.items() returns at its first hit.
FirstHit(map, hits) == StrVal(map[SetMin(hits)].id)

\* The lookup with the containment stage tried before the space-insensitive
\* one.
find_heading_id_containment_first(map, title) ==
    IF title \in MapKeys(map)
    THEN StrVal(map[CHOOSE i \in 1..Len(map) : map[i].text = title].id)
    ELSE IF ContainmentHits(map, title) # {}
    THEN FirstHit(map, ContainmentHits(map, title))
    ELSE IF SpaceInsensitiveHits(map, title) # {}
    THEN FirstHit(map, SpaceInsensitiveHits(map, title))
    ELSE IF KeywordHits(map, title) # {}
    THEN FirstHit(map, KeywordHits(map, title))
    ELSE NoneVal

\* _find_heading_id(title_text), lines 1136-1172
find_heading_id(map, title) ==
    IF title \in MapKeys(map)
    THEN StrVal(map[CHOOSE i \in 1..Len(map) : map[i].text = title].id)
    ELSE IF SpaceInsensitiveHits(map, title) # {}
    THEN FirstHit(map, SpaceInsensitiveHits(map, title))
    ELSE IF ContainmentHits(map, title) # {}
    THEN FirstHit(map, ContainmentHits(map, title))
    ELSE IF KeywordHits(map, title) # {}
    THEN FirstHit(map, KeywordHits(map, title))
    ELSE NoneVal

Introduction == <<"I", "n", "t", "r", "o", "d", "u", "c", "t", "i", "o", "n">>
IntroSpaced == <<"I", "n", "t", "r", "o", " ", "d", "u", "c", "t", "i", "o", " ", "n">>

\* Cleaned heading texts and TOC titles of the documents checked; all are
\* stripped, as lines 3226 and 650-654 leave them.
FindTexts ==
    { Introduction, IntroSpaced, Introduction \o <<"-", "a">>,
      <<"a", "b">>, <<"a", " ", "b">>, <<"a", "b", "c">>,
      <<"a", "-", "b">>, <<"b", "-", "a">>, <<"a", "-", "c">>,
      <<"c", "-", "a", "-", "a">>, <<"a", "-", "b", "-", "c">>,
      <<"c">>, <<"-">> }

\* The pre-scan registers a heading (lines 3220-3231).
RegisterHeading(heading_text_clean) ==
    /\ found = NotCalled
    /\ Len(scanned) < MaxRegistered
    /\ LET heading_id == generate_heading_id(heading_text_clean)
       IN  /\ headings_map' = DictSet(headings_map, heading_text_clean, heading_id)
           /\ paragraph_ids' = Append(paragraph_ids, heading_id)
    /\ scanned' = Append(scanned, heading_text_clean)
    /\ UNCHANGED <<title_text, found, OthersOfHead>>

\* The main walk looks up the target of a TOC title (line 2456).
FindHeadingId(title) ==
    /\ found = NotCalled
    /\ title_text' = title
    /\ found' = find_heading_id(headings_map, title)
    /\ UNCHANGED <<headings_map, paragraph_ids, scanned, OthersOfHead>>

FindNext ==
    \/ \E t \in FindTexts : RegisterHeading(t)
    \/ \E t \in FindTexts : FindHeadingId(t)

\* The four stages as the claim words them, for entry i of the registry.
StageMatches(k, i) ==
    LET heading_text == headings_map[i].text
        shared == Cardinality(SeqToSet(Keywords(title_text))
                                \cap SeqToSet(Keywords(heading_text)))
    IN  CASE k = 1 -> heading_text = title_text
          [] k = 2 -> RemoveSpacesTabs(heading_text) = RemoveSpacesTabs(title_text)
          [] k = 3 -> Contains(title_text, heading_text)
                      \/ Contains(heading_text, title_text)
          [] k = 4 -> shared >= 2 \/ (shared >= 1 /\ Len(Keywords(title_text)) <= 2)

StageHits(k) == {i \in 1..Len(headings_map) : StageMatches(k, i)}

\* C7: the lookup returns the anchor of the first entry matched by the first
\* of the four stages that matches anything (exact key, equality without
\* spaces and tabs, containment either way, keyword overlap), and no anchor
\* when no stage matches; Introduction resolves to the heading whose text is
\* exactly Introduction, and "Intro ductio n" resolves to it by stage 2.
C7_LookupStagesInOrder ==
    found # NotCalled =>
        /\ \A k \in 1..4 :
               (StageHits(k) # {} /\ \A j \in 1..(k - 1) : StageHits(j) = {})
                   => found = StrVal(headings_map[SetMin(StageHits(k))].id)
        /\ (\A k \in 1..4 : StageHits(k) = {}) => found = NoneVal
        /\ \A i \in 1..Len(headings_map) :
               headings_map[i].text = Introduction =>
                   /\ title_text = Introduction
                         => found = StrVal(headings_map[i].id)
                   /\ (title_text = IntroSpaced /\ IntroSpaced \notin MapKeys(headings_map))
                         => found = StrVal(headings_map[i].id)

\* A lookup decided by the fourth stage in a registry of two headings, and
\* the two examples of the claim.
C7_Witness ==
    /\ found.kind = "str"
    /\ Len(headings_map) = 2
    /\ StageHits(1) = {} /\ StageHits(2) = {} /\ StageHits(3) = {}
    /\ StageHits(4) = {2}

(***************************************************************************)
(* TOC paragraphs (_is_toc_paragraph, _paragraph_has_hyperlink and the TOC *)
(* branch of process_paragraph)                                            *)
(***************************************************************************)
MaxFields == 2   \* fldSimple elements of one paragraph

Whitespace == {" ", "\t"}
DigitChars == {Digits[i] : i \in 1..10}
Dots == {"."}

\* str.lower(), over ASCII
Lower(s) ==
    [i \in 1..Len(s) |->
        IF \E k \in 1..26 : UpperLetters[k] = s[i]
        THEN LowerLetters[CHOOSE k \in 1..26 : UpperLetters[k] = s[i]]
        ELSE s[i]]

\* str.startswith
StartsWith(s, prefix) ==
    Len(prefix) <= Len(s) /\ SubSeq(s, 1, Len(prefix)) = prefix

AllIn(s, from, to, class) == \A i \in from..to : s[i] \in class
NoneIn(s, from, to, class) == \A i \in from..to : s[i] \notin class

\* line 479: re.match(r'^\d+\.\s*[^0-9]+[\t\s]+\d+\s*$', raw_text); a and b
\* to e are the positions at which the seven parts of the pattern end.
\* toc_pattern2 of line 480 is the same pattern without the trailing \s*.
MatchesTocPattern(s) ==
    \E a \in 1..Len(s) :
        /\ AllIn(s, 1, a, DigitChars)
        /\ a + 1 <= Len(s) /\ s[a + 1] = "."
        /\ \E b \in (a + 1)..Len(s) :
              /\ AllIn(s, a + 2, b, Whitespace)
              /\ \E c \in (b + 1)..Len(s) :
                    /\ NoneIn(s, b + 1, c, DigitChars)
                    /\ \E d \in (c + 1)..Len(s) :
                          /\ AllIn(s, c + 1, d, Whitespace)
                          /\ \E e \in (d + 1)..Len(s) :
                                /\ AllIn(s, d + 1, e, DigitChars)
                                /\ AllIn(s, e + 1, Len(s), Whitespace)

\* The number of characters of the class at the end of s.
RECURSIVE TrailingCount(_, _)
TrailingCount(s, class) ==
    IF s = <<>> \/ s[Len(s)] \notin class THEN 0
    ELSE 1 + TrailingCount(SubSeq(s, 1, Len(s) - 1), class)

DropLast(s, n) == SubSeq(s, 1, Len(s) - n)

\* re.sub(r'<first>+\d+\s*$', '', s) for a class first disjoint from the
\* digits: the leftmost match takes the whole run of first.
RemovePageNumber(s, first) ==
    LET spaces == TrailingCount(s, Whitespace)
        s1 == DropLast(s, spaces)
        digits == TrailingCount(s1, DigitChars)
        s2 == DropLast(s1, digits)
        lead == TrailingCount(s2, first)
    IN  IF digits >= 1 /\ lead >= 1 THEN DropLast(s2, lead) ELSE s

\* The length of the run of Whitespace that starts at position i.
RECURSIVE RunLength(_, _)
RunLength(s, i) ==
    IF i > Len(s) \/ s[i] \notin Whitespace THEN 0 ELSE 1 + RunLength(s, i + 1)

\* line 644: re.sub(r'[\t ]{2,}', '', cleaned_text)
RECURSIVE RemoveRunsFrom(_, _)
RemoveRunsFrom(s, i) ==
    IF i > Len(s) THEN <<>>
    ELSE IF RunLength(s, i) >= 2 THEN RemoveRunsFrom(s, i + RunLength(s, i))
    ELSE <<s[i]>> \o RemoveRunsFrom(s, i + 1)

RemoveWhitespaceRuns(s) == RemoveRunsFrom(s, 1)

\* lines 634-655: the title of a TOC entry from the paragraph text.  The
\* replacements of line 643 and the &nbsp; and U+00A0 alternatives act on
\* characters the texts checked here do not hold.
CleanTocTitle(paragraph_text) ==
    LET raw_text == Strip(paragraph_text)
        cleaned_text == LStrip(RemoveWhitespaceRuns(raw_text))
        t1 == RemovePageNumber(cleaned_text, Dots)
        t2 == RemovePageNumber(t1, Whitespace)
        t3 == Strip(DropLast(t2, TrailingCount(t2, Dots)))
    IN  Strip(SelectSeq(t3, LAMBDA c : c \notin Whitespace))

TocPrefix == <<"_", "T", "o", "c">>
TocWord == <<"t", "o", "c">>
ContentsWord == <<"c", "o", "n", "t", "e", "n", "t", "s">>

\* lines 451-457
has_toc_bookmark(p) ==
    \E i \in 1..Len(p.bookmarks) : StartsWith(p.bookmarks[i], TocPrefix)

\* lines 460-469; style_val is <<>> when the paragraph has no w:pStyle
is_toc_style(p) ==
    \/ Contains(TocWord, Lower(p.style_val))
    \/ Contains(ContentsWord, Lower(p.style_val))

\* lines 472-482
has_toc_pattern(p) ==
    Strip(p.text) # <<>> /\ MatchesTocPattern(Strip(p.text))

\* lines 518-523 (and 577-582): int(sz) for a border that is drawn; sz is
\* <<>> when the attribute is absent
BorderRaises(p) == p.border_sz # <<>> /\ ~IntParses(p.border_sz)

\* The condition of line 632 without its last disjunct.
TocAcceptanceWithoutWhitespaceRule(p) ==
    \/ (has_toc_bookmark(p) /\ (is_toc_style(p) \/ has_toc_pattern(p)))
    \/ (is_toc_style(p) /\ has_toc_pattern(p))

\* The condition of line 632.
TocAcceptance(p) ==
    \/ (has_toc_bookmark(p) /\ (is_toc_style(p) \/ has_toc_pattern(p)))
    \/ (is_toc_style(p) /\ has_toc_pattern(p))
    \/ (has_toc_pattern(p) /\ (\/ Contains(<<"\t">>, Strip(p.text))
                               \/ Contains(<<" ", " ">>, Strip(p.text))))

NotToc == [is_toc |-> FALSE, title_text |-> <<>>]

HeadingWord == <<"h", "e", "a", "d", "i", "n", "g">>
TitleWord == <<"t", "i", "t", "l", "e">>
HeadWord == <<"h", "e", "a", "d">>

\* is_heading_from_xml(paragraph), lines 1030-1102
is_heading_from_xml(p) ==
    IF ~p.pPr THEN FALSE
    ELSE IF /\ p.style_val # <<>>
            /\ \/ Contains(HeadingWord, Lower(p.style_val))
               \/ Contains(TitleWord, Lower(p.style_val))
               \/ StartsWith(Lower(p.style_val), HeadWord)
    THEN TRUE
    ELSE IF p.outlineLvl THEN TRUE
    ELSE IF p.large_bold THEN TRUE
    ELSE has_toc_bookmark(p) /\ ~has_toc_pattern(p)

\* _is_toc_paragraph(paragraph), lines 441-664, without the border CSS
is_toc_paragraph(p) ==
    IF BorderRaises(p) THEN NotToc
    ELSE IF TocAcceptance(p) /\ Len(CleanTocTitle(p.text)) > 1
    THEN [is_toc |-> TRUE, title_text |-> CleanTocTitle(p.text)]
    ELSE NotToc

HyperlinkWord == <<"H", "Y", "P", "E", "R", "L", "I", "N", "K">>
HyperlinkInstr == HyperlinkWord \o <<" ", "x">>
PagerefInstr == <<"P", "A", "G", "E", "R", "E", "F", " ", "x">>

\* _paragraph_has_hyperlink(paragraph), lines 1294-1315.  elem.find returns
\* the first w:fldSimple of the paragraph; an absent instr is <<>>.
paragraph_has_hyperlink(l) ==
    IF l.hyperlink THEN TRUE
    ELSE IF /\ l.fldSimple # <<>>
            /\ l.fldSimple[1] # <<>>
            /\ Contains(HyperlinkWord, l.fldSimple[1])
    THEN TRUE
    ELSE \E i \in 1..Len(l.instrText) :
            l.instrText[i] # <<>> /\ Contains(HyperlinkWord, l.instrText[i])

SeqsUpTo(S, n) == UNION {[1..k -> S] : k \in 0..n}

GoBack == <<"_", "G", "o", "B", "a", "c", "k">>
BookmarkLists == {<<>>, <<GoBack>>, <<GoBack, TocPrefix \o <<"1">>>>}
StyleVals == {<<>>, <<"T", "O", "C", "1">>, <<"C", "o", "n", "t", "e", "n", "t", "s">>,
              <<"N", "o", "r", "m", "a", "l">>, <<"H", "e", "a", "d", "i", "n", "g", "1">>}
ParagraphTexts ==
    { <<"1", ".", " ", "a", "b", "\t", "5">>,
      <<"1", ".", " ", "a", "b", " ", " ", "5", " ">>,
      <<"1", ".", " ", "a", "b", " ", "5">>,
      <<"1", ".", " ", "a", "b", ".", ".", "5">>,
      <<"1", ".", " ", "\t", "5">>,
      <<"1", ".", "\t", "\t", "5">>,
      <<"a", "b">>, <<"a">>, <<"5">> }
BorderSizes == {<<>>, <<"8">>, <<"x">>}

\* The paragraphs checked: no image; pPr tells whether the paragraph has a
\* w:pPr, which holds its style, border and outline level; large_bold
\* tells whether a run is bold and of 15pt or more.
TocParagraphs ==
    {p \in [bookmarks : BookmarkLists, style_val : StyleVals, text : ParagraphTexts,
            border_sz : BorderSizes, pPr : BOOLEAN, outlineLvl : BOOLEAN,
            large_bold : BOOLEAN] :
        (p.style_val # <<>> \/ p.border_sz # <<>> \/ p.outlineLvl) => p.pPr}

LinkMarkups ==
    [hyperlink : BOOLEAN,
     fldSimple : SeqsUpTo({<<>>, HyperlinkInstr, PagerefInstr}, MaxFields),
     instrText : SeqsUpTo({HyperlinkInstr, PagerefInstr}, 1)]

TocHeadingTexts == {<<"a", "b">>, <<"c">>}

NoParagraph ==
    [bookmarks |-> <<>>, style_val |-> <<>>, text |-> <<>>, border_sz |-> <<>>,
     pPr |-> FALSE, outlineLvl |-> FALSE, large_bold |-> FALSE]
NoLink == [hyperlink |-> FALSE, fldSimple |-> <<>>, instrText |-> <<>>]
NotRendered == [rendered |-> FALSE, linked |-> FALSE, href |-> <<>>, text |-> <<>>]

TocIdle ==
    /\ toc_para = NoParagraph
    /\ toc_result = NotToc
    /\ toc_link = NoLink
    /\ toc_html = NotRendered
    /\ toc_titles = {}

\* The pre-scan registers the one heading of the document (lines 3220-3231).
PrescanHeading(heading_text_clean) ==
    /\ toc_para = NoParagraph
    /\ scanned = <<>>
    /\ LET heading_id == generate_heading_id(heading_text_clean)
       IN  /\ headings_map' = DictSet(headings_map, heading_text_clean, heading_id)
           /\ paragraph_ids' = Append(paragraph_ids, heading_id)
    /\ scanned' = Append(scanned, heading_text_clean)
    /\ UNCHANGED <<title_text, found, tocVars, OthersOfToc>>

\* _scan_toc_recursive, line 3183, and process_paragraph, line 2450: the
\* paragraph is classified.
IsTocParagraph ==
    /\ toc_para = NoParagraph
    /\ \E p \in TocParagraphs :
          /\ toc_para' = p
          /\ toc_result' = is_toc_paragraph(p)
    /\ UNCHANGED <<toc_link, toc_html, toc_titles, headVars, OthersOfToc>>

\* process_paragraph, lines 2361 and 2453-2479: the TOC branch, taken by a
\* paragraph that is no heading, whatever its link markup.
RenderTocParagraph ==
    /\ toc_para # NoParagraph
    /\ ~is_heading_from_xml(toc_para)
    /\ toc_result.is_toc
    /\ ~toc_html.rendered
    /\ \E l \in LinkMarkups :
          LET toc_title == toc_result.title_text
              heading_id == find_heading_id(headings_map, toc_title)
          IN  /\ toc_titles' = IF toc_title # <<>>
                               THEN toc_titles \cup {Strip(toc_title)}
                               ELSE toc_titles
              /\ toc_html' =
                    IF /\ heading_id.kind = "str" /\ heading_id.val # <<>>
                       /\ paragraph_has_hyperlink(l)
                    THEN [rendered |-> TRUE, linked |-> TRUE,
                          href |-> heading_id.val, text |-> toc_title]
                    ELSE [rendered |-> TRUE, linked |-> FALSE, href |-> <<>>,
                          text |-> toc_title]
              /\ toc_link' = l
    /\ UNCHANGED <<toc_para, toc_result, headVars, OthersOfToc>>

TocNext ==
    \/ \E t \in TocHeadingTexts : PrescanHeading(t)
    \/ IsTocParagraph
    \/ RenderTocParagraph

\* The paragraph carries a hyperlink element or a HYPERLINK field.
CarriesHyperlink(l) ==
    \/ l.hyperlink
    \/ \E i \in 1..Len(l.fldSimple) : Contains(HyperlinkWord, l.fldSimple[i])
    \/ \E i \in 1..Len(l.instrText) : Contains(HyperlinkWord, l.instrText[i])

\* C8: a rendered TOC paragraph links to "#<anchor>" if and only if an anchor
\* was found for its title and the paragraph carries a hyperlink element or
\* a HYPERLINK field; otherwise it is plain unlinked text.
C8_LinkedIffTargetAndHyperlink ==
    toc_html.rendered =>
        LET target == find_heading_id(headings_map, toc_result.title_text)
        IN  /\ toc_html.linked <=> (target.kind = "str" /\ CarriesHyperlink(toc_link))
            /\ toc_html.linked => toc_html.href = target.val

\* The four signals of the classified paragraph.
SignalBookmark == \E i \in 1..Len(toc_para.bookmarks) :
                      StartsWith(toc_para.bookmarks[i], TocPrefix)
SignalStyle == \/ Contains(TocWord, Lower(toc_para.style_val))
               \/ Contains(ContentsWord, Lower(toc_para.style_val))
SignalPattern == MatchesTocPattern(Strip(toc_para.text))
SignalWhitespace == \/ Contains(<<"\t">>, Strip(toc_para.text))
                    \/ Contains(<<" ", " ">>, Strip(toc_para.text))

AcceptanceFormula ==
    \/ (SignalBookmark /\ (SignalStyle \/ SignalPattern))
    \/ (SignalStyle /\ SignalPattern)
    \/ (SignalPattern /\ SignalWhitespace)

MaxElements == 3   \* body elements of the document

\* What the checks of process_paragraph find in a paragraph:
\*   images     extract_images_from_paragraph returned a non-empty list
\*   text_empty paragraph.text.strip() is empty
\*   heading    is_heading_from_xml
\*   toc        _is_toc_paragraph
\*   toc_match  _matches_toc_title of its plain text
\*   list       parse_list_from_xml: "none", "numbered" or "bulleted"
\*   bad_indent a w:ind or w:spacing attribute that int() rejects
\* and in a table: bad_width, a w:tblW width that int() rejects.
\* A paragraph with no text is no TOC entry and matches no TOC title.
Paragraphs ==
    {p \in [tag : {"p"}, images : BOOLEAN, text_empty : BOOLEAN, heading : BOOLEAN,
            toc : BOOLEAN, toc_match : BOOLEAN,
            list : {"none", "numbered", "bulleted"},
            bad_indent : BOOLEAN, bad_width : {FALSE}] :
        p.text_empty => (~p.toc /\ ~p.toc_match)}

Tables ==
    [tag : {"tbl"}, images : {FALSE}, text_empty : {FALSE}, heading : {FALSE},
     toc : {FALSE}, toc_match : {FALSE}, list : {"none"}, bad_indent : {FALSE},
     bad_width : BOOLEAN]

NoElement ==
    [tag |-> "", images |-> FALSE, text_empty |-> FALSE, heading |-> FALSE,
     toc |-> FALSE, toc_match |-> FALSE, list |-> "none", bad_indent |-> FALSE,
     bad_width |-> FALSE]

Html(role) == [kind |-> "html", role |-> role]
Raised == [kind |-> "ValueError", role |-> ""]
NoResult == [kind |-> "none", role |-> ""]

\* _get_paragraph_format_from_xml, lines 997-1028: get_paragraph_style_css
\* (src/util.py lines 170-223) converts the attributes with int() outside
\* any try.
FormatRaises(p) == p.bad_indent

\* lines 2570-2659: the list and plain branches
ListOrPlain(p) ==
    IF FormatRaises(p) THEN Raised
    ELSE IF p.list # "none" THEN Html("list")
    ELSE Html("plain")

\* lines 2483-2568: the fallback on recorded TOC titles; an exception raised
\* inside it is swallowed and the list check follows
TocTitleFallback(p) ==
    IF p.toc_match /\ ~FormatRaises(p) THEN Html("heading")
    ELSE ListOrPlain(p)

\* process_paragraph with the TOC check ahead of the heading check.
process_paragraph_toc_first(p) ==
    IF p.images THEN (IF FormatRaises(p) THEN Raised ELSE Html("image"))
    ELSE IF p.text_empty THEN Html("empty")
    ELSE IF p.toc THEN (IF FormatRaises(p) THEN Raised ELSE Html("toc"))
    ELSE IF p.heading THEN (IF FormatRaises(p) THEN Raised ELSE Html("heading"))
    ELSE TocTitleFallback(p)

\* process_paragraph(paragraph), lines 2175-2661
process_paragraph(p) ==
    IF p.images THEN (IF FormatRaises(p) THEN Raised ELSE Html("image"))
    ELSE IF p.text_empty THEN Html("empty")
    ELSE IF p.heading THEN (IF FormatRaises(p) THEN Raised ELSE Html("heading"))
    ELSE IF p.toc THEN (IF FormatRaises(p) THEN Raised ELSE Html("toc"))
    ELSE TocTitleFallback(p)

\* process_table(table, ...), lines 3012-3173: int(w_val) of lines 3031 and
\* 3034 is outside any try
process_table(t) == IF t.bad_width THEN Raised ELSE Html("table")

WalkIdle ==
    /\ html_parts = <<>>
    /\ elem = NoElement
    /\ result = NoResult
    /\ walk_pc = "walking"

\* One iteration of the while loop of _traverse_document_body for a w:p
\* (lines 743-768); p is the paragraph after the floating paragraphs that
\* follow it were merged into it.  An exception leaves the loop, convert()
\* (line 3297) and reaches main.
TraverseParagraph(p) ==
    /\ walk_pc = "walking"
    /\ Len(html_parts) < MaxElements
    /\ elem' = p
    /\ result' = process_paragraph(p)
    /\ IF process_paragraph(p) = Raised
       THEN walk_pc' = "raised" /\ UNCHANGED html_parts
       ELSE html_parts' = Append(html_parts, process_paragraph(p).role)
            /\ UNCHANGED walk_pc
    /\ UNCHANGED OthersOfWalk

\* One iteration for a w:tbl (lines 771-776).
TraverseTable(t) ==
    /\ walk_pc = "walking"
    /\ Len(html_parts) < MaxElements
    /\ elem' = t
    /\ result' = process_table(t)
    /\ IF process_table(t) = Raised
       THEN walk_pc' = "raised" /\ UNCHANGED html_parts
       ELSE html_parts' = Append(html_parts, process_table(t).role)
            /\ UNCHANGED walk_pc
    /\ UNCHANGED OthersOfWalk

\* convert(), lines 3304-3316: the walk returned and the HTML file is written.
WriteHtml ==
    /\ walk_pc = "walking"
    /\ walk_pc' = "written"
    /\ UNCHANGED <<html_parts, elem, result, OthersOfWalk>>

\* main, lines 121-125: the exception is printed and the process exits with
\* status 1; no HTML file was written.
MainExit ==
    /\ walk_pc = "raised"
    /\ walk_pc' = "exit 1"
    /\ UNCHANGED <<html_parts, elem, result, OthersOfWalk>>

WalkNext ==
    \/ \E p \in Paragraphs : TraverseParagraph(p)
    \/ \E t \in Tables : TraverseTable(t)
    \/ WriteHtml
    \/ MainExit

\* C5: no exception raised while processing one body element propagates
\* past that element: the walk continues and convert() still writes the
\* HTML output.
C5_ElementErrorsContained ==
    result.kind = "ValueError" => walk_pc \in {"walking", "written"}

\* The rules of the claim, in its order, and the role each gives.
RuleHolds(k, p) ==
    CASE k = 1 -> p.images
      [] k = 2 -> p.text_empty /\ ~p.images
      [] k = 3 -> p.heading
      [] k = 4 -> p.toc
      [] k = 5 -> p.toc_match
      [] k = 6 -> p.list # "none"
      [] k = 7 -> TRUE

RuleRole == <<"image", "empty", "heading", "toc", "heading", "list", "plain">>

\* C10: a paragraph that the main walk renders gets the role of the first
\* rule that holds for it, in the order images, empty, heading, TOC entry,
\* TOC-title match, list, plain.
C10_FirstMatchingRuleWins ==
    (elem.tag = "p" /\ result.kind = "html") =>
        result.role = RuleRole[SetMin({k \in 1..7 : RuleHolds(k, elem)})]

\* A heading that is also a TOC entry, matches a TOC title and is a list item.
C10_Witness ==
    /\ elem.tag = "p" /\ ~elem.images /\ ~elem.text_empty
    /\ elem.heading /\ elem.toc /\ elem.toc_match /\ elem.list = "numbered"
    /\ result = Html("heading")
    /\ Len(html_parts) = 2

(***************************************************************************)
(* CSS strings (DocxUtils.normalize_css, merge_css_with_priority)          *)
(***************************************************************************)
\* The first position of character ch in s, 0 when s does not hold it.
FirstIndex(s, ch) ==
    IF \E i \in 1..Len(s) : s[i] = ch
    THEN SetMin({i \in 1..Len(s) : s[i] = ch})
    ELSE 0

\* s.split(ch)
RECURSIVE SplitOn(_, _)
SplitOn(s, ch) ==
    LET i == FirstIndex(s, ch)
    IN  IF i = 0 THEN <<s>>
        ELSE <<SubSeq(s, 1, i - 1)>> \o SplitOn(SubSeq(s, i + 1, Len(s)), ch)

\* ' '.join(value.split()) on a stripped value
RECURSIVE CollapseSpaces(_)
CollapseSpaces(s) ==
    IF Len(s) < 2 THEN s
    ELSE IF IsSpace(s[1]) /\ IsSpace(s[2]) THEN CollapseSpaces(Tail(s))
    ELSE IF IsSpace(s[1]) THEN <<" ">> \o CollapseSpaces(Tail(s))
    ELSE <<s[1]>> \o CollapseSpaces(Tail(s))

\* prop, value = part.split(':', 1), both stripped
PropOf(part) == Strip(SubSeq(part, 1, FirstIndex(part, ":") - 1))
ValueOf(part) == Strip(SubSeq(part, FirstIndex(part, ":") + 1, Len(part)))

\* f"{prop}: {value}"
Declaration(prop, value) == prop \o <<":", " ">> \o value

\* DocxUtils.normalize_css(css_str), src/util.py lines 103-126
normalize_css(css_str) ==
    LET parts == SelectSeq(SplitOn(css_str, ";"), LAMBDA part : Strip(part) # <<>>)
        kept == SelectSeq(parts, LAMBDA part :
                    /\ FirstIndex(part, ":") # 0
                    /\ PropOf(part) # <<>>
                    /\ ValueOf(part) # <<>>)
    IN  IF css_str = <<>> THEN <<>>
        ELSE Join([i \in 1..Len(kept) |->
                      Declaration(PropOf(kept[i]), CollapseSpaces(ValueOf(kept[i])))],
                  <<";", " ">>)

\* css_dict[prop] = value on a dict kept as a sequence in insertion order
CssSet(css_dict, prop, value) ==
    IF \E i \in 1..Len(css_dict) : css_dict[i].prop = prop
    THEN [i \in 1..Len(css_dict) |->
             IF css_dict[i].prop = prop THEN [prop |-> prop, value |-> value]
             ELSE css_dict[i]]
    ELSE Append(css_dict, [prop |-> prop, value |-> value])

\* src/util.py lines 141-148: the properties of one CSS string enter the dict
RECURSIVE CssSetAll(_, _)
CssSetAll(css_dict, prop_values) ==
    IF prop_values = <<>> THEN css_dict
    ELSE LET prop_value == Head(prop_values)
             prop == PropOf(prop_value)
             value == ValueOf(prop_value)
         IN  IF FirstIndex(prop_value, ":") # 0 /\ prop # <<>> /\ value # <<>>
             THEN CssSetAll(CssSet(css_dict, prop, value), Tail(prop_values))
             ELSE CssSetAll(css_dict, Tail(prop_values))

\* src/util.py lines 134-148: css_dict after all the CSS strings
RECURSIVE CssDictOf(_, _)
CssDictOf(css_dict, css_parts) ==
    IF css_parts = <<>> THEN css_dict
    ELSE IF Head(css_parts) = <<>> THEN CssDictOf(css_dict, Tail(css_parts))
    ELSE CssDictOf(CssSetAll(css_dict, SplitOn(Head(css_parts), ";")), Tail(css_parts))

\* DocxUtils.merge_css_with_priority(css_parts), src/util.py lines 128-151
merge_css_with_priority(css_parts) ==
    LET css_dict == CssDictOf(<<>>, css_parts)
    IN  Join([i \in 1..Len(css_dict) |->
                 Declaration(css_dict[i].prop, css_dict[i].value)], <<";", " ">>)

(***************************************************************************)
(* Style inheritance chains (_load_style_definitions, lines 305-316)       *)
(***************************************************************************)
MaxChain == 6      \* entries appended to one chain before the model stops

\* The style ids of the catalog in document order, and the values a basedOn
\* can take: a style of the catalog, an id the catalog does not define, or
\* nothing ("" stands for None and for an empty attribute, both falsy).
StyleOrder == <<"s1", "s2", "s3">>
StyleIds == {StyleOrder[i] : i \in 1..Len(StyleOrder)}
DanglingId == "x"
NoParent == ""
ParentValues == StyleIds \cup {DanglingId, NoParent}

\* The state before a catalog is loaded.
StyleIdle ==
    /\ style_defs = [s \in StyleIds |-> NoParent]
    /\ style_inheritance = <<>>
    /\ style_pc = "idle"
    /\ style_idx = 0
    /\ chain = <<>>
    /\ based_on = NoParent

\* The catalog parsed from styles.xml (lines 266-300): any based-on relation.
StyleInit ==
    /\ style_defs \in [StyleIds -> ParentValues]
    /\ style_inheritance = <<>>
    /\ style_pc = "for"
    /\ style_idx = 0
    /\ chain = <<>>
    /\ based_on = NoParent

\* lines 307-309: the for loop takes the next style
ChainStart ==
    /\ style_pc = "for"
    /\ style_idx < Len(StyleOrder)
    /\ style_idx' = style_idx + 1
    /\ chain' = <<StyleOrder[style_idx + 1]>>
    /\ based_on' = style_defs[StyleOrder[style_idx + 1]]
    /\ style_pc' = "while"
    /\ UNCHANGED <<style_defs, style_inheritance, OthersOfStyle>>

\* lines 310-315: one iteration of the while loop
ChainAppend ==
    /\ style_pc = "while"
    /\ based_on # NoParent
    /\ Len(chain) < MaxChain
    /\ chain' = Append(chain, based_on)
    /\ IF based_on \in DOMAIN style_defs
       THEN /\ based_on' = style_defs[based_on]
            /\ style_pc' = "while"
       ELSE /\ based_on' = based_on
            /\ style_pc' = "store"
    /\ UNCHANGED <<style_defs, style_inheritance, style_idx, OthersOfStyle>>

\* line 316, after the while loop ended by its condition or by break
ChainStore ==
    /\ \/ style_pc = "while" /\ based_on = NoParent
       \/ style_pc = "store"
    /\ style_inheritance' =
           [s \in DOMAIN style_inheritance \cup {StyleOrder[style_idx]} |->
               IF s = StyleOrder[style_idx] THEN chain ELSE style_inheritance[s]]
    /\ style_pc' = "for"
    /\ UNCHANGED <<style_defs, style_idx, chain, based_on, OthersOfStyle>>

\* lines 318-320: the for loop is exhausted
ChainsDone ==
    /\ style_pc = "for"
    /\ style_idx = Len(StyleOrder)
    /\ style_pc' = "done"
    /\ UNCHANGED <<style_defs, style_inheritance, style_idx, chain, based_on,
                   OthersOfStyle>>

StyleNext == ChainStart \/ ChainAppend \/ ChainStore \/ ChainsDone

\* C3 (as claimed): building the chain of every style terminates for every
\* catalog; a dangling or circular based-on truncates the chain.  The next
\* parent is a function of the style reached, so a walk that ends visits
\* each style of the catalog at most once and then at most one undefined id:
\* a chain longer than that belongs to a walk that is in a cycle and never
\* leaves it.
C3_ChainBuildingTerminates ==
    Len(chain) <= Cardinality(StyleIds) + 1

(***************************************************************************)
(* Style resolution (_get_resolved_style_css, get_run_style_css,           *)
(* get_paragraph_style_css)                                                *)
(***************************************************************************)
ColorProp == <<"c", "o", "l", "o", "r">>
FontWeightProp == <<"f", "o", "n", "t", "-", "w", "e", "i", "g", "h", "t">>
TextDecorationProp == <<"t", "e", "x", "t", "-", "d", "e", "c", "o", "r", "a", "t", "i", "o", "n">>
TextAlignProp == <<"t", "e", "x", "t", "-", "a", "l", "i", "g", "n">>
TextIndentProp == <<"t", "e", "x", "t", "-", "i", "n", "d", "e", "n", "t">>
AutoVal == <<"a", "u", "t", "o">>
Color111 == <<"1", "1", "1", "1", "1", "1">>
Color222 == <<"2", "2", "2", "2", "2", "2">>

\* A w:rPr of a style definition: present is FALSE when the style has none;
\* color is the w:val of w:color (<<>> without one); b, u and strike are
\* "absent", "on" or "off" (w:val="0").  The styles checked set no other
\* run property.
NoRPr == [present |-> FALSE, color |-> <<>>, b |-> "absent", u |-> "absent",
          strike |-> "absent"]

\* A w:pPr of a style definition: jc is the w:val of w:jc, firstLine and
\* hanging the attributes of w:ind (each <<>> when absent).
NoPPr == [present |-> FALSE, jc |-> <<>>, firstLine |-> <<>>, hanging |-> <<>>]

\* DocxUtils.get_run_style_css(rPr), src/util.py lines 244-336
get_run_style_css(rPr) ==
    LET color == IF rPr.color = <<>> THEN <<>>
                 ELSE IF rPr.color = AutoVal
                 THEN <<Declaration(ColorProp, <<"c", "u", "r", "r", "e", "n", "t", "C", "o", "l", "o", "r">>)>>
                 ELSE IF Len(rPr.color) = 6
                 THEN <<Declaration(ColorProp, <<"#">> \o rPr.color)>>
                 ELSE <<>>
        bold == IF rPr.b = "on" THEN <<Declaration(FontWeightProp, <<"b", "o", "l", "d">>)>>
                ELSE <<>>
        underline == IF rPr.u = "on"
                     THEN <<Declaration(TextDecorationProp, <<"u", "n", "d", "e", "r", "l", "i", "n", "e">>)>>
                     ELSE <<>>
        strike == IF rPr.strike = "on"
                  THEN <<Declaration(TextDecorationProp, <<"l", "i", "n", "e", "-", "t", "h", "r", "o", "u", "g", "h">>)>>
                  ELSE <<>>
    IN  IF ~rPr.present THEN <<>>
        ELSE normalize_css(Join(color \o bold \o underline \o strike, <<";", " ">>))

\* int(DocxUtils.twip_to_pixels(int(twips))): twips / 20 * 1.33, truncated
TwipsToPx(twips) == (DigitsValue(twips) * 133) \div 2000

\* align_map of src/util.py line 164
AlignOf(jc) ==
    IF jc = <<"c", "e", "n", "t", "e", "r">> THEN <<"c", "e", "n", "t", "e", "r">>
    ELSE IF jc = <<"r", "i", "g", "h", "t">> THEN <<"r", "i", "g", "h", "t">>
    ELSE IF jc = <<"b", "o", "t", "h">> THEN <<"j", "u", "s", "t", "i", "f", "y">>
    ELSE IF jc = <<"l", "e", "f", "t">> THEN <<"l", "e", "f", "t">>
    ELSE <<>>

\* DocxUtils.get_paragraph_style_css(pPr), src/util.py lines 154-241, for
\* the alignment and the indents
get_paragraph_style_css(pPr) ==
    LET align == IF pPr.jc # <<>> /\ AlignOf(pPr.jc) # <<>>
                 THEN <<Declaration(TextAlignProp, AlignOf(pPr.jc))>>
                 ELSE <<>>
        first == IF pPr.firstLine # <<>>
                 THEN <<Declaration(TextIndentProp,
                                    Str(TwipsToPx(pPr.firstLine)) \o <<"p", "x">>)>>
                 ELSE <<>>
        hang == IF pPr.hanging # <<>>
                THEN <<Declaration(TextIndentProp,
                                   <<"-">> \o Str(TwipsToPx(pPr.hanging)) \o <<"p", "x">>)>>
                ELSE <<>>
    IN  IF ~pPr.present THEN <<>>
        ELSE normalize_css(Join(align \o first \o hang, <<";", " ">>))

\* The CSS one style definition gives for a property kind (lines 370-377).
LevelCss(style_def, property_type) ==
    IF property_type = "paragraph" /\ style_def.pPr.present
    THEN get_paragraph_style_css(style_def.pPr)
    ELSE IF property_type = "run" /\ style_def.rPr.present
    THEN get_run_style_css(style_def.rPr)
    ELSE <<>>

Reverse(q) == [i \in 1..Len(q) |-> q[Len(q) + 1 - i]]

\* lines 367-379: the non-empty CSS of the styles of a chain that the catalog
\* defines, in the order of the chain given
CssPartsOf(inheritance_chain, property_type) ==
    LET defined == SelectSeq(inheritance_chain, LAMBDA id : id \in DOMAIN style_props)
        parts == [i \in 1..Len(defined) |->
                     LevelCss(style_props[defined[i]], property_type)]
    IN  SelectSeq(parts, LAMBDA css : css # <<>>)

\* The resolution that walks the chain from the named style to its ancestors.
get_resolved_style_css_child_first(style_name, property_type) ==
    IF style_name \notin DOMAIN style_inheritance THEN <<>>
    ELSE merge_css_with_priority(
             CssPartsOf(style_inheritance[style_name], property_type))

\* The resolution that keeps the CSS of the call before.
get_resolved_style_css_accumulating(style_name, property_type) ==
    IF style_name \notin DOMAIN style_inheritance THEN <<>>
    ELSE merge_css_with_priority(
             <<resolved>> \o CssPartsOf(Reverse(style_inheritance[style_name]),
                                        property_type))

\* _get_resolved_style_css(style_name, property_type), lines 351-381
get_resolved_style_css(style_name, property_type) ==
    IF style_name \notin DOMAIN style_inheritance THEN <<>>
    ELSE merge_css_with_priority(
             CssPartsOf(Reverse(style_inheritance[style_name]), property_type))

\* lines 305-316 for one style of a catalog whose basedOn references hold no
\* cycle: the chain the loop stores
RECURSIVE ChainFrom(_, _)
ChainFrom(defs, parent) ==
    IF parent = NoParent THEN <<>>
    ELSE IF parent \in DOMAIN defs THEN <<parent>> \o ChainFrom(defs, defs[parent])
    ELSE <<parent>>

BuildChain(defs, style_id) == <<style_id>> \o ChainFrom(defs, defs[style_id])

\* The styles reached from a style in at most n basedOn steps.
RECURSIVE ReachIn(_, _, _)
ReachIn(defs, style_id, n) ==
    IF n = 0 \/ style_id \notin DOMAIN defs THEN {}
    ELSE {defs[style_id]} \cup ReachIn(defs, defs[style_id], n - 1)

\* The catalogs for which __init__ returns (see C3).
Acyclic(defs) ==
    \A id \in DOMAIN defs : id \notin ReachIn(defs, id, Cardinality(DOMAIN defs))

RunProps ==
    { NoRPr,
      [present |-> TRUE, color |-> Color111, b |-> "on", u |-> "on", strike |-> "absent"],
      [present |-> TRUE, color |-> Color222, b |-> "off", u |-> "absent", strike |-> "on"],
      [present |-> TRUE, color |-> AutoVal, b |-> "absent", u |-> "on", strike |-> "on"] }

ParaProps ==
    { NoPPr,
      [present |-> TRUE, jc |-> <<"c", "e", "n", "t", "e", "r">>, firstLine |-> <<"2", "4", "0">>, hanging |-> <<>>],
      [present |-> TRUE, jc |-> <<"r", "i", "g", "h", "t">>, firstLine |-> <<"2", "4", "0">>,
       hanging |-> <<"4", "8", "0">>] }

\* The property sets a style definition of the catalogs checked can hold.
LevelProps ==
    {sp \in [rPr : RunProps, pPr : ParaProps] :
        \/ (~sp.rPr.present /\ ~sp.pPr.present)
        \/ (sp.rPr.color = Color111 /\ sp.pPr.jc = <<"c", "e", "n", "t", "e", "r">>)
        \/ (sp.rPr.color = Color222 /\ sp.pPr.jc = <<"r", "i", "g", "h", "t">>)
        \/ (sp.rPr.color = AutoVal /\ sp.pPr.jc = <<"c", "e", "n", "t", "e", "r">>)}

\* The property sets of the catalogs checked: three different ones, one
\* style without properties between two that set the same properties, and
\* one that declares a property twice under and over one that declares it
\* once.  The basedOn references put them in every order.
Level(rPr, pPr) == [rPr |-> rPr, pPr |-> pPr]
PlainLevel == Level(NoRPr, NoPPr)
Level111 == CHOOSE sp \in LevelProps : sp.rPr.color = Color111
Level222 == CHOOSE sp \in LevelProps : sp.rPr.color = Color222
LevelAuto == CHOOSE sp \in LevelProps : sp.rPr.color = AutoVal
Catalogs ==
    { [id \in StyleIds |-> CASE id = "s1" -> Level222 [] id = "s2" -> Level111
                                [] OTHER -> LevelAuto],
      [id \in StyleIds |-> CASE id = "s1" -> Level222 [] id = "s2" -> PlainLevel
                                [] OTHER -> Level111],
      [id \in StyleIds |-> CASE id = "s1" -> LevelAuto [] id = "s2" -> Level111
                                [] OTHER -> LevelAuto] }

PropertyTypes == {"paragraph", "run"}
StyleNames == StyleIds \cup {DanglingId}

NoResolution == [style_name |-> "", property_type |-> ""]

ResolveIdle ==
    /\ style_props = [id \in StyleIds |-> [rPr |-> NoRPr, pPr |-> NoPPr]]
    /\ resolve_call = NoResolution
    /\ resolved = <<>>
    /\ first_call = NoResolution
    /\ first_css = <<>>
    /\ interleaved = FALSE

\* The converter after __init__ loaded a catalog (lines 250-320).  Of the
\* catalogs with a dangling basedOn, those where the last style carries it
\* are taken: it then ends chains of every length.
ResolveInit ==
    /\ style_defs \in {defs \in [StyleIds -> ParentValues] :
                          /\ Acyclic(defs)
                          /\ \A i \in 1..(Len(StyleOrder) - 1) :
                                 defs[StyleOrder[i]] # DanglingId}
    /\ style_inheritance = [id \in StyleIds |-> BuildChain(style_defs, id)]
    /\ style_pc = "done"
    /\ style_idx = Len(StyleOrder)
    /\ chain = BuildChain(style_defs, StyleOrder[Len(StyleOrder)])
    /\ based_on = NoParent
    /\ style_props \in Catalogs
    /\ resolve_call = NoResolution
    /\ resolved = <<>>
    /\ first_call = NoResolution
    /\ first_css = <<>>
    /\ interleaved = FALSE

\* A call of _get_resolved_style_css (lines 351-381).
Resolve ==
    \E style_name \in StyleNames, property_type \in PropertyTypes :
        LET this == [style_name |-> style_name, property_type |-> property_type]
            css == get_resolved_style_css(style_name, property_type)
        IN  /\ resolve_call' = this
            /\ resolved' = css
            /\ first_call' = IF first_call = NoResolution THEN this ELSE first_call
            /\ first_css' = IF first_call = NoResolution THEN css ELSE first_css
            /\ interleaved' = (interleaved \/ (first_call # NoResolution
                                                /\ this # first_call))
            /\ UNCHANGED <<style_props, styleVars, OthersOfResolve>>

ResolveNext == Resolve

\* The CSS string as the dict it was joined from.
DeclarationsOf(css) == CssDictOf(<<>>, <<css>>)

\* The properties a CSS string sets, and the value it gives a property.
PropsOf(css) ==
    LET decls == DeclarationsOf(css) IN {decls[i].prop : i \in 1..Len(decls)}
CssValue(css, prop) ==
    LET decls == DeclarationsOf(css)
    IN  decls[CHOOSE i \in 1..Len(decls) : decls[i].prop = prop].value

\* How often the text of a CSS string declares a property.
Occurrences(css, prop) ==
    LET parts == SplitOn(css, ";")
    IN  Cardinality({i \in 1..Len(parts) :
                        FirstIndex(parts[i], ":") # 0 /\ PropOf(parts[i]) = prop})

\* The positions of the chain of the resolved style whose style sets prop.
LevelsSetting(prop) ==
    LET ch == style_inheritance[resolve_call.style_name]
    IN  {i \in 1..Len(ch) :
            /\ ch[i] \in DOMAIN style_props
            /\ prop \in PropsOf(LevelCss(style_props[ch[i]], resolve_call.property_type))}

AllProps == {ColorProp, FontWeightProp, TextDecorationProp, TextAlignProp, TextIndentProp}

\* C11: a CSS property set at more than one level of the chain of the
\* resolved style occurs exactly once in the resolved CSS, with the value of
\* the level closest to the named style; an ancestor color #111111 under an
\* own color #222222 resolves to color: #222222.
C11_MostSpecificLevelWins ==
    resolve_call.style_name \in DOMAIN style_inheritance =>
        \A prop \in AllProps :
            LET levels == LevelsSetting(prop)
            IN  Cardinality(levels) > 1 =>
                    LET ch == style_inheritance[resolve_call.style_name]
                        nearest == style_props[ch[SetMin(levels)]]
                    IN  /\ Occurrences(resolved, prop) = 1
                        /\ CssValue(resolved, prop)
                             = CssValue(LevelCss(nearest, resolve_call.property_type), prop)

\* The example of the claim: own color #222222, parent color #111111.
C11_Witness ==
    /\ resolve_call.property_type = "run"
    /\ resolve_call.style_name \in StyleIds
    /\ Len(style_inheritance[resolve_call.style_name]) >= 2
    /\ style_props[resolve_call.style_name].rPr.color = Color222
    /\ style_inheritance[resolve_call.style_name][2] \in StyleIds
    /\ style_props[style_inheritance[resolve_call.style_name][2]].rPr.color = Color111
    /\ Occurrences(resolved, ColorProp) = 1
    /\ CssValue(resolved, ColorProp) = <<"#">> \o Color222

EmuPerInch == 914400
PixelsPerInch == 96
TargetWidth == 1200

\* int(emu * 96 / 914400) for emu >= 0 (line 98 and util.py line 40).
\* 914400 = 96 * 9525, so the quotient is emu / 9525; written this way the
\* product emu * 96 does not leave the integers TLC computes with.
EmuToPxNoScale(emu) ==
    IF emu # 0 THEN emu \div (EmuPerInch \div PixelsPerInch) ELSE 0

\* DocxUtils.emu_to_pixels(emu_value, apply_scale), util.py lines 30-44,
\* reading the class attribute
emu_to_pixels(emu_value, apply_scale) ==
    LET base == EmuToPxNoScale(emu_value)
    IN  IF apply_scale THEN (base * SCALE[1]) \div SCALE[2] ELSE base

\* The same conversion under a given scale.
PixelsUnder(emu_value, scale) ==
    (EmuToPxNoScale(emu_value) * scale[1]) \div scale[2]

NoneInt == -1      \* None for page_width, left_margin, right_margin
One == <<1, 1>>    \* 1.0
MinScale == <<1, 2>>   \* 0.5
MaxScale == <<5, 2>>   \* 2.5

\* a < b for fractions with positive denominators
FracLess(a, b) == a[1] * b[2] < b[1] * a[2]

\* Lines 109-112 without the lower limit.
ClampScaleUpperOnly(scale) ==
    IF FracLess(MaxScale, scale) THEN MaxScale ELSE scale

\* lines 109-112
ClampScale(scale) ==
    LET s1 == IF FracLess(scale, MinScale) THEN MinScale ELSE scale
    IN  IF FracLess(MaxScale, s1) THEN MaxScale ELSE s1

\* lines 100-117: the scale _init_scale_to_1200 stores for a section
ScaleOf(sec) ==
    LET known == sec.page_w # NoneInt /\ sec.page_w # 0
                 /\ sec.left_m # NoneInt /\ sec.right_m # NoneInt
        content_emu == sec.page_w - sec.left_m - sec.right_m
    IN  IF known /\ content_emu > 0
        THEN LET content_px == EmuToPxNoScale(content_emu)
             IN  IF content_px > 0 THEN ClampScale(<<TargetWidth, content_px>>) ELSE One
        ELSE One

Converters == {"A", "B"}

\* Page geometries of the documents: letter with one inch margins, a wide
\* page, a narrow page, a very wide page, a section without a page width,
\* margins wider than the page, and a content area narrower than one pixel.
Sections ==
    { [page_w |-> 7772400, left_m |-> 914400, right_m |-> 914400],
      [page_w |-> 12192000, left_m |-> 0, right_m |-> 0],
      [page_w |-> 3000000, left_m |-> 457200, right_m |-> 457200],
      [page_w |-> 30000000, left_m |-> 0, right_m |-> 0],
      [page_w |-> NoneInt, left_m |-> 914400, right_m |-> 914400],
      [page_w |-> 914400, left_m |-> 914400, right_m |-> 914400],
      [page_w |-> 920000, left_m |-> 457200, right_m |-> 457200] }

\* Native lengths the walk converts with apply_scale=True (for instance
\* _get_txbx_div_style, lines 3357-3368).
EmuInputs == {0, 9525, 914400, 1828800}

NoPixels == [emu |-> 0, px |-> 0]

\* util.py line 16, before any converter exists
ScaleIdle ==
    /\ SCALE = One
    /\ section = [c \in Converters |-> [page_w |-> NoneInt, left_m |-> NoneInt,
                                        right_m |-> NoneInt]]
    /\ phase = [c \in Converters |-> "new"]
    /\ pixels = [c \in Converters |-> NoPixels]

\* Two documents, neither converter built yet.
ScaleInit ==
    /\ SCALE = One
    /\ section \in [Converters -> Sections]
    /\ phase = [c \in Converters |-> "new"]
    /\ pixels = [c \in Converters |-> NoPixels]

\* DocxToHTMLConverter.__init__, lines 88-93: sets the class attribute
Construct(c) ==
    /\ phase[c] = "new"
    /\ SCALE' = ScaleOf(section[c])
    /\ phase' = [phase EXCEPT ![c] = "constructed"]
    /\ UNCHANGED <<section, pixels, OthersOfScale>>

\* c.convert(): a geometry value of the walk, computed by emu_to_pixels
Convert(c, emu) ==
    /\ phase[c] = "constructed"
    /\ pixels' = [pixels EXCEPT ![c] = [emu |-> emu, px |-> emu_to_pixels(emu, TRUE)]]
    /\ phase' = [phase EXCEPT ![c] = "converted"]
    /\ UNCHANGED <<SCALE, section, OthersOfScale>>

ScaleNext ==
    \/ \E c \in Converters : Construct(c)
    \/ \E c \in Converters, emu \in EmuInputs : Convert(c, emu)

\* C4 (as claimed): in any order of construct(A), construct(B), A.convert(),
\* B.convert(), every pixel value computed during a converter's convert()
\* uses the scale derived from that converter's own page geometry.
C4_ScaleOfOwnDocument ==
    \A c \in Converters :
        phase[c] = "converted" =>
            pixels[c].px = PixelsUnder(pixels[c].emu, ScaleOf(section[c]))

\* The content width in px of a section, 0 when it is missing or not positive.
ContentPx(sec) ==
    IF sec.page_w = NoneInt \/ sec.left_m = NoneInt \/ sec.right_m = NoneInt
    THEN 0
    ELSE IF sec.page_w - sec.left_m - sec.right_m > 0
         THEN (sec.page_w - sec.left_m - sec.right_m) \div 9525
         ELSE 0

\* The scale the claim gives for a section: 1200 / content width, limited to
\* [0.5, 2.5], and 1.0 without a positive width.  Fractions <<n, d>>.
ClaimedScale(sec) ==
    LET w == ContentPx(sec)
    IN  IF w <= 0 THEN <<1, 1>>
        ELSE IF 1200 * 2 < w THEN <<1, 2>>
        ELSE IF 1200 * 2 > 5 * w THEN <<5, 2>>
        ELSE <<1200, w>>

\* C13: the global scale always lies in [0.5, 2.5], and constructing a
\* converter sets it to 0.5 when 1200 / content width is below 0.5, to 2.5
\* when it is above 2.5, to 1200 / content width when that is inside the
\* range, and to 1.0 when the content width is missing or not positive.
C13_ScaleClamped ==
    /\ [](2 * SCALE[1] >= SCALE[2] /\ 2 * SCALE[1] <= 5 * SCALE[2])
    /\ [][\A c \in Converters :
            (phase[c] = "new" /\ phase'[c] = "constructed")
                => SCALE' = ClaimedScale(section[c])]_vars

\* A converter was built on a page so wide that the raw scale is below 0.5.
C13_Witness ==
    \E c \in Converters :
        /\ phase[c] = "constructed"
        /\ ContentPx(section[c]) > 2400
        /\ SCALE = <<1, 2>>

(***************************************************************************)
(* Floating objects of a paragraph (extract_images_from_paragraph, lines   *)
(* 2663-2965, and the image branch of process_paragraph, lines 2186-2330)  *)
(*                                                                         *)
(* An object is a record of its kind, its anchor offset (x, y) and its     *)
(* displayed size, all in scaled pixels.                                   *)
(***************************************************************************)
MaxObjects == 3

Margin == 5          \* line 2868
BucketHeight == 10   \* line 2836

SetMax(S) == CHOOSE x \in S : \A y \in S : x >= y

\* sort_key, lines 2834-2837
sort_key(item) == <<item.y \div BucketHeight, item.x>>

\* tuple comparison of two sort keys
KeyLess(a, b) == a[1] < b[1] \/ (a[1] = b[1] /\ a[2] < b[2])

\* list.sort is stable: an item goes after every item whose key is not larger
RECURSIVE InsertSorted(_, _)
InsertSorted(sorted, item) ==
    IF sorted = <<>> THEN <<item>>
    ELSE IF KeyLess(sort_key(item), sort_key(Head(sorted)))
         THEN <<item>> \o sorted
         ELSE <<Head(sorted)>> \o InsertSorted(Tail(sorted), item)

\* all_items.sort(key=sort_key), line 2839
RECURSIVE SortItems(_)
SortItems(items) ==
    IF items = <<>> THEN <<>>
    ELSE InsertSorted(SortItems(SubSeq(items, 1, Len(items) - 1)), items[Len(items)])

\* lines 2765-2822: the images first, then the text boxes, each in document
\* order
CollectItems(ds) ==
    SelectSeq(ds, LAMBDA d : d.item_type = "image")
        \o SelectSeq(ds, LAMBDA d : d.item_type = "textbox")

\* lines 2859-2862: the bounding box of the current group
GroupBox(items, current_group) ==
    LET members == SeqToSet(current_group)
    IN  [min_x |-> SetMin({items[i].x : i \in members}),
         min_y |-> SetMin({items[i].y : i \in members}),
         max_x |-> SetMax({items[i].x + items[i].width : i \in members}),
         max_y |-> SetMax({items[i].y + items[i].height : i \in members})]

\* Lines 2878-2883 without the margin.
is_overlapping_exact(r, box) ==
    ~ \/ r.x + r.width < box.min_x
      \/ r.x > box.max_x
      \/ r.y + r.height < box.min_y
      \/ r.y > box.max_y

\* lines 2866-2883
is_overlapping(r, box) ==
    ~ \/ r.x + r.width + Margin < box.min_x
      \/ r.x > box.max_x + Margin
      \/ r.y + r.height + Margin < box.min_y
      \/ r.y > box.max_y + Margin

\* The while loop of lines 2855-2891 run once only: the items that overlap
\* the box of the first member, without a new box after a merge.
GrowGroupSinglePass(items, current_group, processed) ==
    LET box == GroupBox(items, current_group)
        hits == {j \in 1..Len(items) :
                    j \notin processed /\ is_overlapping(items[j], box)}
        RECURSIVE Ascending(_)
        Ascending(S) == IF S = {} THEN <<>>
                        ELSE <<SetMin(S)>> \o Ascending(S \ {SetMin(S)})
    IN  [group |-> current_group \o Ascending(hits),
         processed |-> processed \cup hits]

\* The while loop of lines 2855-2891: the first unprocessed item that
\* overlaps the box of the group joins it, and the box is computed again.
RECURSIVE GrowGroup(_, _, _)
GrowGroup(items, current_group, processed) ==
    LET box == GroupBox(items, current_group)
        hits == {j \in 1..Len(items) :
                    j \notin processed /\ is_overlapping(items[j], box)}
    IN  IF hits = {}
        THEN [group |-> current_group, processed |-> processed]
        ELSE GrowGroup(items, Append(current_group, SetMin(hits)),
                       processed \cup {SetMin(hits)})

\* the for loop of lines 2846-2893
RECURSIVE GroupFrom(_, _, _, _)
GroupFrom(items, i, processed, gs) ==
    IF i > Len(items) THEN gs
    ELSE IF i \in processed THEN GroupFrom(items, i + 1, processed, gs)
    ELSE LET g == GrowGroup(items, <<i>>, processed \cup {i})
         IN  GroupFrom(items, i + 1, g.processed, Append(gs, g.group))

\* lines 2842-2893
GroupItems(items) == GroupFrom(items, 1, {}, <<>>)

\* lines 2897-2963: one result per group
FinalResult(items, group) ==
    IF Len(group) = 1
    THEN [type |-> items[group[1]].item_type,
          width |-> items[group[1]].width,
          height |-> items[group[1]].height,
          overlays |-> <<>>]
    ELSE LET box == GroupBox(items, group)
         IN  [type |-> "group",
              width |-> box.max_x - box.min_x,
              height |-> box.max_y - box.min_y,
              overlays |-> [k \in 1..Len(group) |->
                              [x |-> items[group[k]].x - box.min_x,
                               y |-> items[group[k]].y - box.min_y,
                               width |-> items[group[k]].width,
                               height |-> items[group[k]].height]]]

\* process_paragraph, lines 2215-2330: a text box becomes a div of its own,
\* a group a position: relative container with position: absolute children,
\* an image an img element.
RenderResult(img) ==
    IF img.type = "textbox" THEN [role |-> "standalone div", children |-> 0]
    ELSE IF img.type = "group"
         THEN [role |-> "positioned container", children |-> Len(img.overlays)]
         ELSE [role |-> "standalone img", children |-> 0]

Object(t, x, y, w, h) ==
    [item_type |-> t, x |-> x, y |-> y, width |-> w, height |-> h]

\* Objects of one paragraph: overlapping by 10px, 5px and 6px apart on
\* either axis, far apart, a wide object bridging two others, and three
\* objects of which one lies inside the box of the other two without
\* touching either.
Objects ==
    { Object("image", 0, 0, 100, 50),
      Object("image", 90, 10, 100, 50),
      Object("textbox", 200, 0, 100, 50),
      Object("image", 105, 0, 100, 50),
      Object("textbox", 106, 0, 100, 50),
      Object("textbox", 0, 55, 100, 50),
      Object("image", 0, 56, 100, 50),
      Object("textbox", 90, 10, 120, 50),
      Object("image", 400, 0, 10, 100),
      Object("textbox", 400, 95, 100, 10),
      Object("image", 460, 20, 20, 20) }

\* no paragraph with drawings is being processed
ImageIdle ==
    /\ drawings = <<>>
    /\ all_items = <<>>
    /\ groups = <<>>
    /\ final_results = <<>>
    /\ images_html = <<>>

\* a paragraph that holds up to MaxObjects different drawings
ImageInit ==
    /\ drawings \in {ds \in SeqsUpTo(Objects, MaxObjects) :
                        /\ ds # <<>>
                        /\ \A i, j \in 1..Len(ds) : i # j => ds[i] # ds[j]}
    /\ all_items = <<>>
    /\ groups = <<>>
    /\ final_results = <<>>
    /\ images_html = <<>>

\* process_paragraph on that paragraph: extract_images_from_paragraph and
\* the rendering of what it returns
ExtractImages ==
    /\ all_items = <<>>
    /\ LET items == SortItems(CollectItems(drawings))
           gs == GroupItems(items)
           results == [g \in 1..Len(gs) |-> FinalResult(items, gs[g])]
       IN  /\ all_items' = items
           /\ groups' = gs
           /\ final_results' = results
           /\ images_html' = [g \in 1..Len(gs) |-> RenderResult(results[g])]
    /\ UNCHANGED <<drawings, OthersOfImage>>

ImageNext == ExtractImages

\* Two boxes overlap within the 5px tolerance: on neither axis are they more
\* than 5px apart.
Overlap(a, b) ==
    /\ a.x <= b.x + b.width + 5
    /\ b.x <= a.x + a.width + 5
    /\ a.y <= b.y + b.height + 5
    /\ b.y <= a.y + a.height + 5

SameGroup(i, j) ==
    \E g \in 1..Len(groups) : {i, j} \subseteq SeqToSet(groups[g])

Extracted == all_items # <<>>

\* C14: any two objects of a paragraph whose boxes overlap within the 5px
\* margin are in the same group, whatever their place in the sorted order,
\* and so are the ends of a chain A ~ B, B ~ C.
C14_OverlappingObjectsShareGroup ==
    Extracted =>
        /\ \A i, j \in 1..Len(all_items) :
               Overlap(all_items[i], all_items[j]) => SameGroup(i, j)
        /\ \A i, j, k \in 1..Len(all_items) :
               (Overlap(all_items[i], all_items[j]) /\ Overlap(all_items[j], all_items[k]))
                   => SameGroup(i, k)

\* A chain whose middle object is sorted last: the first two objects do not
\* overlap, the third overlaps both, and the three are one group.
C14_Witness ==
    /\ Extracted
    /\ Len(all_items) = 3
    /\ ~Overlap(all_items[1], all_items[2])
    /\ Overlap(all_items[1], all_items[3])
    /\ Overlap(all_items[3], all_items[2])
    /\ Len(groups) = 1

\* The gap between two boxes on each axis (0 when they overlap on it).
GapX(a, b) == SetMax({0, b.x - (a.x + a.width), a.x - (b.x + b.width)})
GapY(a, b) == SetMax({0, b.y - (a.y + a.height), a.y - (b.y + b.height)})

MaxNumber == 710

\* no ordinal is being rendered
LetterIdle ==
    /\ letter_num = 0
    /\ lower_result = <<>>
    /\ upper_result = <<>>

\* an ordinal 1..MaxNumber is about to be rendered
LetterInit ==
    /\ letter_num \in 1..MaxNumber
    /\ lower_result = <<>>
    /\ upper_result = <<>>

\* number_to_letter(num), with lower=True and with lower=False
NumberToLetter ==
    /\ lower_result = <<>>
    /\ lower_result' = number_to_letter(letter_num, TRUE)
    /\ upper_result' = number_to_letter(letter_num, FALSE)
    /\ UNCHANGED <<letter_num, OthersOfLetter>>

LetterNext == NumberToLetter

\* The string after s in the order a..z, aa, ab, ..., az, ba, ...
RECURSIVE NextString(_)
NextString(s) ==
    IF s = <<>> THEN <<"a">>
    ELSE IF s[Len(s)] = "z"
         THEN NextString(SubSeq(s, 1, Len(s) - 1)) \o <<"a">>
         ELSE SubSeq(s, 1, Len(s) - 1)
                \o <<LowerLetters[(CHOOSE i \in 1..26 : LowerLetters[i] = s[Len(s)]) + 1]>>

\* The place of s in that order: after the 26 + 26^2 + ... strings that are
\* shorter, at its place among the strings of its own length.
LetterIndex(c) == CHOOSE i \in 1..26 : LowerLetters[i] = c

RECURSIVE Power26(_)
Power26(k) == IF k = 0 THEN 1 ELSE 26 * Power26(k - 1)

RECURSIVE ShorterStrings(_)
ShorterStrings(len) == IF len <= 1 THEN 0 ELSE Power26(len - 1) + ShorterStrings(len - 1)

RECURSIVE LexPlace(_)
LexPlace(s) ==
    IF s = <<>> THEN 0
    ELSE 26 * LexPlace(SubSeq(s, 1, Len(s) - 1)) + (LetterIndex(s[Len(s)]) - 1)

PlaceOf(s) == ShorterStrings(Len(s)) + LexPlace(s) + 1

UpperOf(s) ==
    [k \in 1..Len(s) |-> UpperLetters[CHOOSE i \in 1..26 : LowerLetters[i] = s[k]]]

\* The examples of the claim.
LetterExamples ==
    { <<1, <<"a">>>>, <<26, <<"z">>>>, <<27, <<"a", "a">>>>, <<52, <<"a", "z">>>>,
      <<53, <<"b", "a">>>>, <<702, <<"z", "z">>>>, <<703, <<"a", "a", "a">>>> }

\* C16: for every n >= 1 the lowercase ordinal is the n-th string of a..z,
\* aa, ab, ... (1 -> a, 26 -> z, 27 -> aa, 52 -> az, 53 -> ba, 702 -> zz,
\* 703 -> aaa), different numbers give different strings, and the uppercase
\* ordinal is the uppercase of the lowercase one.
C16_BijectiveBase26 ==
    lower_result # <<>> =>
        /\ PlaceOf(lower_result) = letter_num
        /\ letter_num > 1 =>
               lower_result = NextString(number_to_letter(letter_num - 1, TRUE))
        /\ \A e \in LetterExamples : letter_num = e[1] => lower_result = e[2]
        /\ \A m \in 1..MaxNumber :
               m # letter_num => number_to_letter(m, TRUE) # lower_result
        /\ upper_result = UpperOf(lower_result)

\* 703 was rendered, as aaa and AAA.
C16_Witness ==
    /\ letter_num = 703
    /\ lower_result = <<"a", "a", "a">>
    /\ upper_result = <<"A", "A", "A">>

(***************************************************************************)
(* List paragraphs (parse_list_from_xml, lines 1174-1272, and the list     *)
(* branch of process_paragraph, lines 2571-2630)                           *)
(***************************************************************************)
MaxParagraphs == 3

UndefinedNumId == 3
ParaNumIds == NumIds \cup {UndefinedNumId}

\* A w:lvl of the numbering part, as _load_numbering_definitions stores it
\* (lines 186-238): numFmt "None" when the level has no w:numFmt.
LevelInfo(is_bullet, numFmt) == [is_bullet |-> is_bullet, numFmt |-> numFmt]

\* self.numbering_definitions of the document: list 1 is decimal and its
\* abstractNum has no w:lvl for level 1; list 2 has a bullet level 0, a
\* level 1 without w:numFmt and decimal deeper levels; list 3 is referenced
\* by paragraphs and not defined.
numbering_definitions ==
    [n \in NumIds |->
        IF n = 1
        THEN [l \in Levels \ {1} |-> LevelInfo(FALSE, "decimal")]
        ELSE [l \in Levels |->
                 IF l = 0 THEN LevelInfo(TRUE, "bullet")
                 ELSE IF l = 1 THEN LevelInfo(FALSE, "None")
                 ELSE LevelInfo(FALSE, "decimal")]]

\* A paragraph with its own w:numPr.
ListParagraphs == [numId : ParaNumIds, ilvl : Levels]

\* parse_list_from_xml, lines 1187-1216, for a paragraph with w:numPr
parse_list_from_xml(paragraph) ==
    IF /\ paragraph.numId \in DOMAIN numbering_definitions
       /\ paragraph.ilvl \in DOMAIN numbering_definitions[paragraph.numId]
    THEN LET level_info == numbering_definitions[paragraph.numId][paragraph.ilvl]
         IN  IF level_info.is_bullet
             THEN [list_info |-> "bulleted", level |-> paragraph.ilvl,
                   list_id |-> 0, numFmt |-> "None"]
             ELSE [list_info |-> "numbered", level |-> paragraph.ilvl,
                   list_id |-> paragraph.numId, numFmt |-> level_info.numFmt]
    ELSE [list_info |-> "numbered", level |-> paragraph.ilvl,
          list_id |-> paragraph.numId, numFmt |-> "None"]

\* no list paragraph has been rendered
ParaIdle == list_paras = <<>>

\* process_paragraph on a list paragraph, lines 2571-2630: a numbered
\* paragraph calls _get_list_number and emits the number it returns, a
\* bulleted one emits its bullet character.
RenderListParagraph ==
    /\ Len(list_paras) < MaxParagraphs
    /\ \E paragraph \in ListParagraphs :
          LET info == parse_list_from_xml(paragraph)
          IN  /\ list_paras' = Append(list_paras, paragraph)
              /\ IF info.list_info = "numbered"
                 THEN LET r == get_list_number(list_counters, info.list_id,
                                               info.level, info.numFmt)
                      IN  /\ list_counters' = r.counters
                          /\ number' = r.result
                          /\ call' = [numId |-> info.list_id, ilvl |-> info.level,
                                      numFmt |-> info.numFmt]
                          /\ emitted' = IF r.result.kind = "str"
                                        THEN Append(emitted,
                                                 [numId |-> info.list_id,
                                                  ilvl |-> info.level,
                                                  number |-> r.result])
                                        ELSE emitted
                 ELSE UNCHANGED listVars
    /\ UNCHANGED OthersOfPara

ParaNext == RenderListParagraph

\* An ordinal list item with a resolved numbering format.
IsOrdinalItem(paragraph) ==
    /\ paragraph.numId \in DOMAIN numbering_definitions
    /\ paragraph.ilvl \in DOMAIN numbering_definitions[paragraph.numId]
    /\ ~numbering_definitions[paragraph.numId][paragraph.ilvl].is_bullet
    /\ numbering_definitions[paragraph.numId][paragraph.ilvl].numFmt \in OrdinalFormats

\* The numbers emitted for a sequence of ordinal items alone.
RECURSIVE NumbersFor(_, _)
NumbersFor(paras, counters) ==
    IF paras = <<>> THEN <<>>
    ELSE LET paragraph == Head(paras)
             fmt == numbering_definitions[paragraph.numId][paragraph.ilvl].numFmt
             r == get_list_number(counters, paragraph.numId, paragraph.ilvl, fmt)
         IN  <<[numId |-> paragraph.numId, ilvl |-> paragraph.ilvl, number |-> r.result]>>
                \o NumbersFor(Tail(paras), r.counters)

\* C17 (as claimed): rendering a list paragraph that is not an ordinal item
\* with a resolved format (a bullet item, a missing numbering definition or
\* level) leaves the list-counter table unchanged, and the numbers emitted
\* for the ordinal items are those emitted with that paragraph absent.
C17_NonOrdinalLeavesCountersUnchanged ==
    /\ [](emitted = NumbersFor(SelectSeq(list_paras, IsOrdinalItem), <<>>))
    /\ [][(/\ list_paras' # list_paras
           /\ ~IsOrdinalItem(list_paras'[Len(list_paras')]))
              => list_counters' = list_counters]_vars

\* The dot-separated components of an emitted number.
ComponentsOf(e) == SplitOn(e.number.val, ".")

\* Level j of list numId was numbered before the k-th emitted item.
NumberedBefore(numId, j, k) ==
    \E i \in 1..(k - 1) : emitted[i].numId = numId /\ emitted[i].ilvl = j

\* C18 (as claimed): an ordinal item numbered at level k > 0 gets exactly k+1
\* dot-separated components, with 1 for every ancestor level that was never
\* numbered, and no component of an emitted number is 0.
C18_UnnumberedAncestorsCountAsOne ==
    \A k \in 1..Len(emitted) :
        LET e == emitted[k]
            parts == ComponentsOf(e)
        IN  /\ e.ilvl > 0 =>
                /\ Len(parts) = e.ilvl + 1
                /\ \A j \in 0..(e.ilvl - 1) :
                       ~NumberedBefore(e.numId, j, k) => parts[j + 1] = <<"1">>
            /\ \A i \in 1..Len(parts) : parts[i] # <<"0">>

(***************************************************************************)
(* Table cells (process_table, lines 3084-3169)                            *)
(*                                                                         *)
(* A table is the list of its w:tr rows, a row the list of its w:tc cells  *)
(* with their w:gridSpan and w:vMerge.  Rows and grid columns are counted  *)
(* from 1.                                                                 *)
(***************************************************************************)
MaxRows == 2

GridCols == 3    \* the grid columns of the tables

\* w:vMerge of a w:tc: absent, val="restart", or a continuation (val
\* "continue" or no val, which the document library reads as "continue").
VMergeVals == {"absent", "restart", "continue"}

Tc(grid_span, vMerge) == [grid_span |-> grid_span, vMerge |-> vMerge]

\* the rows whose cells fill w grid columns
RECURSIVE RowsOfWidth(_)
RowsOfWidth(w) ==
    IF w = 0 THEN {<<>>}
    ELSE UNION {{<<Tc(k, v)>> \o rest : v \in VMergeVals, rest \in RowsOfWidth(w - k)} :
                    k \in 1..w}

\* the grid columns before cell i of a row
RECURSIVE GridOffset(_, _)
GridOffset(row, i) ==
    IF i = 1 THEN 0 ELSE GridOffset(row, i - 1) + row[i - 1].grid_span

\* the cell of a row that starts at grid offset o, 0 when none does
TcAtOffset(row, o) ==
    IF \E i \in 1..Len(row) : GridOffset(row, i) = o
    THEN CHOOSE i \in 1..Len(row) : GridOffset(row, i) = o
    ELSE 0

\* A continuation lies under a cell of the same offset and width that starts
\* or continues a merge.
ValidBelow(above, row) ==
    \A i \in 1..Len(row) :
        row[i].vMerge = "continue" =>
            LET j == TcAtOffset(above, GridOffset(row, i))
            IN  /\ j # 0
                /\ above[j].grid_span = row[i].grid_span
                /\ above[j].vMerge # "absent"

FirstRows ==
    {row \in RowsOfWidth(GridCols) : \A i \in 1..Len(row) : row[i].vMerge # "continue"}

\* the well-formed tables of n rows
RECURSIVE TablesOf(_)
TablesOf(n) ==
    IF n = 1 THEN {<<row>> : row \in FirstRows}
    ELSE UNION {{Append(t, row) :
                    row \in {r \in RowsOfWidth(GridCols) : ValidBelow(t[n - 1], r)}} :
                t \in TablesOf(n - 1)}

MergedTables == UNION {TablesOf(n) : n \in 1..MaxRows}

\* row.cells of the document library (lines 3088, 3094, 3143): one entry
\* per grid column.  A horizontally spanned w:tc is repeated for each column
\* it spans, and in place of a vMerge continuation the library returns the
\* cell that starts the merge.  An entry names its w:tc by row and index.
RECURSIVE ContentTc(_, _, _)
ContentTc(table, r, i) ==
    IF table[r][i].vMerge = "continue"
    THEN ContentTc(table, r - 1, TcAtOffset(table[r - 1], GridOffset(table[r], i)))
    ELSE [row |-> r, idx |-> i]

RECURSIVE CellsFrom(_, _, _)
CellsFrom(table, r, i) ==
    IF i > Len(table[r]) THEN <<>>
    ELSE [k \in 1..table[r][i].grid_span |-> ContentTc(table, r, i)]
            \o CellsFrom(table, r, i + 1)

RowCells(table, r) == CellsFrom(table, r, 1)

\* cell._element of an entry of row.cells
TcOf(table, cell) == table[cell.row][cell.idx]

\* lines 3141-3153: the scan down column c from row rr
RECURSIVE ScanDown(_, _, _, _)
ScanDown(table, rr, c, acc) ==
    IF rr > Len(table) THEN acc
    ELSE LET cell2 == TcOf(table, RowCells(table, rr)[c])
         IN  IF cell2.vMerge = "absent" \/ cell2.vMerge = "restart"
             THEN acc
             ELSE ScanDown(table, rr + 1, c,
                           [rowspan |-> acc.rowspan + 1,
                            skip_cells |-> acc.skip_cells \cup {<<rr, c>>}])

\* Lines 3154-3155 left out: no column is marked to be skipped.
SkipSpannedNone(skip_cells, r, c, colspan) == skip_cells

\* lines 3154-3155
SkipSpanned(skip_cells, r, c, colspan) ==
    skip_cells \cup {<<r, c + skip_j>> : skip_j \in 1..(colspan - 1)}

\* lines 3086-3167: the loops over the rows and over row.cells
RECURSIVE RenderCells(_, _, _, _, _)
RenderCells(table, r, c, skip_cells, out) ==
    IF r > Len(table) THEN out
    ELSE IF c > Len(RowCells(table, r)) THEN RenderCells(table, r + 1, 1, skip_cells, out)
    ELSE IF <<r, c>> \in skip_cells THEN RenderCells(table, r, c + 1, skip_cells, out)
    ELSE LET cell == RowCells(table, r)[c]
             tc == TcOf(table, cell)
             colspan == IF tc.grid_span > 1 THEN tc.grid_span ELSE 1
         IN  IF tc.vMerge = "continue"
             THEN RenderCells(table, r, c + 1, skip_cells, out)
             ELSE LET scan == IF tc.vMerge = "restart"
                              THEN ScanDown(table, r + 1, c,
                                            [rowspan |-> 1, skip_cells |-> skip_cells])
                              ELSE [rowspan |-> 1, skip_cells |-> skip_cells]
                  IN  RenderCells(table, r, c + 1,
                                  SkipSpanned(scan.skip_cells, r, c, colspan),
                                  Append(out, [row |-> r, col |-> c,
                                               colspan |-> colspan,
                                               rowspan |-> scan.rowspan,
                                               content |-> cell]))

\* no table is being rendered
TableIdle ==
    /\ tbl = <<>>
    /\ tds = <<>>

\* a table of up to MaxRows rows reaches process_table
TableInit ==
    /\ tbl \in MergedTables
    /\ tds = <<>>

\* process_table(table)
ProcessTable ==
    /\ tds = <<>>
    /\ tds' = RenderCells(tbl, 1, 1, {}, <<>>)
    /\ UNCHANGED <<tbl, OthersOfTable>>

TableNext == ProcessTable

\* The td elements emitted at a grid position.
TdsAt(r, c) == {k \in 1..Len(tds) : tds[k].row = r /\ tds[k].col = c}

\* The td elements that cover a grid position with their colspan and rowspan.
TdsCovering(r, c) ==
    {k \in 1..Len(tds) :
        /\ tds[k].row <= r /\ r < tds[k].row + tds[k].rowspan
        /\ tds[k].col <= c /\ c < tds[k].col + tds[k].colspan}

\* The continuation cells directly below cell i of row r, down to the first
\* row whose cell at that offset has no marker or restarts a merge.
RECURSIVE ContinuationsBelow(_, _)
ContinuationsBelow(r, o) ==
    IF r + 1 > Len(tbl) THEN 0
    ELSE LET j == TcAtOffset(tbl[r + 1], o)
         IN  IF j # 0 /\ tbl[r + 1][j].vMerge = "continue"
             THEN 1 + ContinuationsBelow(r + 1, o)
             ELSE 0

Rendered == tds # <<>>

\* C19 (as claimed): a vertical-merge continuation cell emits no cell of its
\* own, and the cell that starts a merge is emitted with rowspan 1 + the
\* number of consecutive continuation cells directly below it, also when
\* the cells are merged horizontally as well.
C19_ContinuationsFoldIntoRowspan ==
    Rendered =>
        \A r \in 1..Len(tbl) : \A i \in 1..Len(tbl[r]) :
            LET o == GridOffset(tbl[r], i)
            IN  /\ tbl[r][i].vMerge = "continue" => TdsAt(r, o + 1) = {}
                /\ tbl[r][i].vMerge = "restart" =>
                       \E k \in TdsAt(r, o + 1) :
                           tds[k].rowspan = 1 + ContinuationsBelow(r, o)

MaxLinks == 2

\* html.escape(s): the five characters it replaces.
EscapeChar(c) ==
    IF c = "&" THEN <<"&", "a", "m", "p", ";">>
    ELSE IF c = "<" THEN <<"&", "l", "t", ";">>
    ELSE IF c = ">" THEN <<"&", "g", "t", ";">>
    ELSE IF c = "\"" THEN <<"&", "q", "u", "o", "t", ";">>
    ELSE IF c = "'" THEN <<"&", "#", "x", "2", "7", ";">>
    ELSE <<c>>

RECURSIVE escape(_)
escape(s) == IF s = <<>> THEN <<>> ELSE EscapeChar(Head(s)) \o escape(Tail(s))

\* The truth value Python gives an attribute: None and "" are false.
Truthy(v) == v.kind = "str" /\ v.val # <<>>

NoElem == [kind |-> "none", children |-> 0, rId |-> NoneVal, anchor |-> NoneVal]

Hyperlink(children, rId, anchor) ==
    [kind |-> "elem", children |-> children, rId |-> rId, anchor |-> anchor]

\* `not hyperlink_elem` (line 932): None is false, and an lxml element is
\* false when it has no child elements.
ElemTruthy(e) == e.kind = "elem" /\ e.children > 0

Span(style, text) ==
    [tag |-> "span", href |-> <<>>, style |-> style, text |-> escape(text)]

Anchor(href, style, text) ==
    [tag |-> "a", href |-> escape(href), style |-> style, text |-> escape(text)]

\* The relationships whose rId equals the one asked for, by position.
RelMatches(part_rels, rId) ==
    {i \in 1..Len(part_rels) : StrVal(part_rels[i].rId) = rId}

\* Lines 944-955: the href of the first matching relationship, None if none
\* of the three branches is taken.
LinkHref(anchor, hyperlink) ==
    IF Truthy(anchor) THEN StrVal(<<"#">> \o anchor.val)
    ELSE IF hyperlink # <<>> /\ StartsWith(hyperlink, <<"m", "a", "i", "l", "t", "o", ":">>)
         THEN StrVal(hyperlink)
    ELSE IF hyperlink # <<>> THEN StrVal(hyperlink)
    ELSE NoneVal

\* _process_hyperlink: html_parts after the call.
process_hyperlink(hyperlink_elem, text, style, parts, part_rels) ==
    IF ~ElemTruthy(hyperlink_elem) THEN Append(parts, Span(style, text))
    ELSE IF Truthy(hyperlink_elem.rId)
    THEN LET found_rels == RelMatches(part_rels, hyperlink_elem.rId)
         IN  IF found_rels = {} THEN parts
             ELSE LET rel  == part_rels[SetMin(found_rels)]
                      href == LinkHref(hyperlink_elem.anchor, rel.target_ref)
                  IN  IF href.kind = "str"
                      THEN Append(parts, Anchor(href.val, style, text))
                      ELSE Append(parts, Span(style, text))
    ELSE Append(parts, Span(style, text))

Rel(rId, target_ref) == [rId |-> rId, target_ref |-> target_ref]

ExternalUrl == <<"u", "?", "a", "&", "b">>
MailTarget == <<"m", "a", "i", "l", "t", "o", ":", "x">>
Bookmark == <<"s", "1">>
ResolvedId == <<"r", "1">>
MailId == <<"r", "2">>
EmptyTargetId == <<"r", "3">>
MissingId == <<"r", "9">>

\* Relationship tables of a document part: rIds are unique in each.
RelTables ==
    { <<Rel(ResolvedId, ExternalUrl), Rel(MailId, MailTarget), Rel(EmptyTargetId, <<>>)>>,
      <<Rel(MailId, MailTarget)>> }

HyperlinkElems ==
    { NoElem,
      Hyperlink(0, StrVal(ResolvedId), NoneVal),
      Hyperlink(1, StrVal(ResolvedId), NoneVal),
      Hyperlink(1, StrVal(MailId), NoneVal),
      Hyperlink(1, StrVal(EmptyTargetId), NoneVal),
      Hyperlink(1, StrVal(MissingId), NoneVal),
      Hyperlink(1, StrVal(ResolvedId), StrVal(Bookmark)),
      Hyperlink(1, StrVal(MissingId), StrVal(Bookmark)),
      Hyperlink(1, NoneVal, StrVal(Bookmark)),
      Hyperlink(1, StrVal(<<>>), StrVal(<<>>)) }

\* Every caller passes text whose strip() is non-empty.
LinkTexts == { <<"g", "o">>, <<"a", "<", "b">> }

LinkStyle == "color: #0000FF"

LinkIdle ==
    /\ rels = <<>>
    /\ link_elem = NoElem
    /\ link_text = <<>>
    /\ link_before = 0
    /\ link_parts = <<>>

LinkInit ==
    /\ rels \in RelTables
    /\ link_elem = NoElem
    /\ link_text = <<>>
    /\ link_before = 0
    /\ link_parts = <<>>

ProcessHyperlink ==
    /\ Len(link_parts) < MaxLinks
    /\ \E e \in HyperlinkElems, t \in LinkTexts :
          /\ link_elem' = e
          /\ link_text' = t
          /\ link_before' = Len(link_parts)
          /\ link_parts' = process_hyperlink(e, t, LinkStyle, link_parts, rels)
    /\ UNCHANGED <<rels, OthersOfLink>>

LinkNext == ProcessHyperlink

\* What the last call appended.
LinkAppended == SubSeq(link_parts, link_before + 1, Len(link_parts))

LinkCalled == link_text # <<>>

\* C21: rendering hyperlink text never loses the text: the call on a
\* hyperlink element appends one fragment holding the escaped text; when the
\* relationship id resolves to no relationship the fragment is a plain styled
\* span, and when the element has an internal bookmark anchor the fragment is
\* an anchor to #<bookmark>, whether or not it also carries a relationship id.
C21_HyperlinkTextNeverLost ==
    (LinkCalled /\ ElemTruthy(link_elem)) =>
        /\ Len(LinkAppended) = 1
        /\ LinkAppended[1].text = escape(link_text)
        /\ (Truthy(link_elem.rId) /\ ~Truthy(link_elem.anchor)
              /\ RelMatches(rels, link_elem.rId) = {})
             => LinkAppended[1] = Span(LinkStyle, link_text)
        /\ Truthy(link_elem.anchor)
             => LinkAppended[1] = Anchor(<<"#">> \o link_elem.anchor.val, LinkStyle, link_text)

(***************************************************************************)
(* One conversion run                                                      *)
(*                                                                         *)
(* main (src/docx_to_html.py, lines 63-125) validates the input, creates   *)
(* the output directories, constructs the converter (lines 27-93) and      *)
(* calls convert() (lines 3249-3329).  A step that touches the file system *)
(* or the package either succeeds or raises; the exception travels to the  *)
(* handlers of main unless the code catches it on the way.                 *)
(***************************************************************************)
MaxBody == 2

NoError == [kind |-> "none", at |-> ""]

RunError(kind, at) == [kind |-> kind, at |-> at]

\* The input files: whether the path exists, ends in .docx, is at most
\* 100MB and is a readable package, and how many body elements it has.
DocxFiles ==
    [exists : BOOLEAN, is_docx : BOOLEAN, small : BOOLEAN,
     package_ok : BOOLEAN, total_elements : 0..MaxBody]

RunIdle ==
    /\ docx = [exists |-> FALSE, is_docx |-> FALSE, small |-> FALSE,
               package_ok |-> FALSE, total_elements |-> 0]
    /\ run_pc = "idle"
    /\ log_file = "unopened"
    /\ walked = 0
    /\ run_error = NoError
    /\ exit_code = NoneInt

RunInit ==
    /\ docx \in DocxFiles
    /\ run_pc = "main"
    /\ log_file = "unopened"
    /\ walked = 0
    /\ run_error = NoError
    /\ exit_code = NoneInt

\* The exception leaves the current function with the log file as it is.
Raise(kind, at) ==
    /\ run_pc' = "raised"
    /\ run_error' = RunError(kind, at)
    /\ UNCHANGED <<docx, log_file, walked, exit_code>>

Proceed(pc) ==
    /\ run_pc' = pc
    /\ UNCHANGED <<docx, log_file, walked, run_error, exit_code>>

\* validate_input_file (src/docx_to_html.py, lines 14-33)
validate_input_file ==
    /\ run_pc = "main"
    /\ IF ~docx.exists THEN Raise("FileNotFoundError", "validate_input_file")
       ELSE IF ~docx.is_docx THEN Raise("ValueError", "validate_input_file")
       ELSE IF ~docx.small THEN Raise("ValueError", "validate_input_file")
       ELSE Proceed("validated")
    /\ UNCHANGED OthersOfRun

\* create_output_dirs (lines 36-60): os.makedirs succeeds or raises OSError.
create_output_dirs ==
    /\ run_pc = "validated"
    /\ \/ Proceed("directories")
       \/ Raise("OSError", "create_output_dirs")
    /\ UNCHANGED OthersOfRun

\* __init__, line 44: Document(docx_path), before the log file is opened.
LoadDocument ==
    /\ run_pc = "directories"
    /\ IF docx.package_ok THEN Proceed("document")
       ELSE Raise("PackageNotFoundError", "__init__")
    /\ UNCHANGED OthersOfRun

\* __init__, line 48: open(log_file, 'w').
OpenLog ==
    /\ run_pc = "document"
    /\ \/ /\ run_pc' = "log opened"
          /\ log_file' = "open"
          /\ UNCHANGED <<docx, walked, run_error, exit_code>>
       \/ Raise("OSError", "__init__")
    /\ UNCHANGED OthersOfRun

\* __init__, line 80: _load_all_resources writes every XML part to xml_dir
\* without a handler of its own.
LoadAllResources ==
    /\ run_pc = "log opened"
    /\ \/ Proceed("resources")
       \/ Raise("OSError", "__init__")
    /\ UNCHANGED OthersOfRun

\* __init__, lines 83-93: the three loaders and _init_scale_to_1200 catch
\* their own exceptions.
LoadDefinitions ==
    /\ run_pc = "resources"
    /\ Proceed("constructed")
    /\ UNCHANGED OthersOfRun

\* convert, lines 3252-3266: the pre-scan; a failure is logged and dropped.
PreScan ==
    /\ run_pc = "constructed"
    /\ Proceed("walking")
    /\ UNCHANGED OthersOfRun

\* convert, line 3296: _traverse_document_body renders one more element, or
\* the element raises.
WalkElement ==
    /\ run_pc = "walking"
    /\ walked < docx.total_elements
    /\ \/ /\ walked' = walked + 1
          /\ UNCHANGED <<docx, run_pc, log_file, run_error, exit_code>>
       \/ Raise("Exception", "_traverse_document_body")
    /\ UNCHANGED OthersOfRun

\* convert, lines 3311-3315: the HTML file is written inside a with block.
SaveHtml ==
    /\ run_pc = "walking"
    /\ walked = docx.total_elements
    /\ \/ Proceed("saved")
       \/ Raise("OSError", "convert")
    /\ UNCHANGED OthersOfRun

\* convert, lines 3317-3325: the closing lines of the log, then close().
CloseLog ==
    /\ run_pc = "saved"
    /\ run_pc' = "converted"
    /\ log_file' = "closed"
    /\ UNCHANGED <<docx, walked, run_error, exit_code>>
    /\ UNCHANGED OthersOfRun

\* main, lines 108-111: the run ends normally.
MainReturns ==
    /\ run_pc = "converted"
    /\ run_pc' = "returned"
    /\ exit_code' = 0
    /\ UNCHANGED <<docx, log_file, walked, run_error>>
    /\ UNCHANGED OthersOfRun

\* main, lines 113-125: each handler prints the error and calls sys.exit(1).
MainExits ==
    /\ run_pc = "raised"
    /\ run_pc' = "exited"
    /\ exit_code' = 1
    /\ UNCHANGED <<docx, log_file, walked, run_error>>
    /\ UNCHANGED OthersOfRun

RunNext ==
    \/ validate_input_file
    \/ create_output_dirs
    \/ LoadDocument
    \/ OpenLog
    \/ LoadAllResources
    \/ LoadDefinitions
    \/ PreScan
    \/ WalkElement
    \/ SaveHtml
    \/ CloseLog
    \/ MainReturns
    \/ MainExits

RunTerminal == run_pc \in {"returned", "exited"}

\* C22: the diagnostic log file opened at construction is released on every
\* exit path of a run: in every terminal state (success, or a failure while
\* constructing after the log was opened, while walking or while writing the
\* HTML file) the log file is not left open.
C22_LogReleasedOnEveryExit ==
    RunTerminal => log_file # "open"

(***************************************************************************)
(* The three passes of convert()                                           *)
(*                                                                         *)
(* convert() (lines 3249-3329) scans the body for TOC entries              *)
(* (_scan_toc_recursive, lines 3175-3195), scans it again for headings     *)
(* (_scan_headings_recursive, lines 3197-3247) and then renders every      *)
(* paragraph (process_paragraph, lines 2175-2661).  A paragraph is a       *)
(* record of the markup the three passes read; its identity as a source    *)
(* element is its position in the body.  The paragraphs have one run of     *)
(* text without markup characters and well-formed attributes, so the text  *)
(* extract_paragraph_text_with_links gives, with its tags stripped, is the *)
(* paragraph text.  In this section paragraph_ids holds one record of the  *)
(* element and its id for each key of the dictionary.                      *)
(***************************************************************************)
MaxDocLen == 3

\* DocxUtils.strip_html_tags(self.extract_paragraph_text_with_links(p)).strip()
text_plain_of(p) == Strip(p.text)

\* norm(s) of _matches_toc_title, lines 1280-1284
norm(s) == SelectSeq(Strip(s), IsWordChar)

\* _matches_toc_title(text_plain), lines 1274-1292: whether a title is
\* returned.  Python's `x in y` is true for an empty x.
matches_toc_title(titles, text_plain) ==
    /\ text_plain # <<>>
    /\ \E t \in titles :
          LET nt == norm(t)
              norm_text == norm(text_plain)
          IN  /\ nt # <<>>
              /\ \/ norm_text = nt
                 \/ Contains(norm_text, nt)
                 \/ Contains(nt, norm_text)

\* The list prefix of a paragraph (lines 2092-2129, 2366-2432, 2490-2553 and
\* 2571-2611) and the counter table after it: a numbered paragraph calls
\* _get_list_number once and shows "<number>."; "*" stands for the bullet
\* character.  numId is 0 for a paragraph without list metadata.
list_prefix(p, counters) ==
    IF p.numId = 0 THEN [counters |-> counters, prefix |-> NoneVal]
    ELSE LET info == parse_list_from_xml(p)
         IN  IF info.list_info = "numbered"
             THEN LET r == get_list_number(counters, info.list_id, info.level, info.numFmt)
                  IN  [counters |-> r.counters,
                       prefix |-> IF r.result.kind = "str" /\ r.result.val # <<>>
                                  THEN StrVal(r.result.val \o <<".">>)
                                  ELSE NoneVal]
             ELSE [counters |-> counters, prefix |-> StrVal(<<"*">>)]

Fragment(i, role, id, href, prefix) ==
    [elem |-> i, role |-> role, id |-> id, href |-> href, prefix |-> prefix]

\* The lookup of a main walk that finds no element registered.
paragraph_id_of_never_registered(i) == NoneVal

\* self.paragraph_ids[paragraph._element], None when the key is absent
paragraph_id_of(i) ==
    IF \E k \in 1..Len(paragraph_ids) : paragraph_ids[k].elem = i
    THEN StrVal(paragraph_ids[CHOOSE k \in 1..Len(paragraph_ids) :
                                  paragraph_ids[k].elem = i].id)
    ELSE NoneVal

Overview == <<"O", "v", "e", "r", "v", "i", "e", "w">>
TocLineDots == <<"1", ".", " ">> \o Overview \o <<".", ".", ".", ".", "3">>
TocLineTab == <<"1", ".", " ">> \o Overview \o <<"\t", "3">>
TocBookmark == TocPrefix \o <<"1">>

Para(text, style_val, bookmarks, images, hyperlink, numId) ==
    [text |-> text, style_val |-> style_val, bookmarks |-> bookmarks,
     border_sz |-> <<>>, pPr |-> (style_val # <<>> \/ numId # 0),
     outlineLvl |-> FALSE, large_bold |-> FALSE, images |-> images,
     hyperlink |-> hyperlink, numId |-> numId, ilvl |-> 0]

Heading1 == <<"H", "e", "a", "d", "i", "n", "g", "1">>
Toc1 == <<"T", "O", "C", "1">>
TocHeading == <<"T", "O", "C", "H", "e", "a", "d", "i", "n", "g">>

OverviewHeading == Para(Overview, Heading1, <<>>, FALSE, FALSE, 0)
OverviewWithImage == Para(Overview, Heading1, <<>>, TRUE, FALSE, 0)
OverviewTitle == Para(Overview, <<"T", "i", "t", "l", "e">>, <<>>, FALSE, FALSE, 0)
EmptyHeading == Para(<<>>, Heading1, <<>>, FALSE, FALSE, 0)
TocDotsBookmarked == Para(TocLineDots, Toc1, <<TocBookmark>>, FALSE, TRUE, 0)
TocDotsStyled == Para(TocLineDots, Toc1, <<>>, FALSE, TRUE, 0)
TocTabStyled == Para(TocLineTab, Toc1, <<>>, FALSE, TRUE, 0)
TocTabHeadingStyle == Para(TocLineTab, TocHeading, <<>>, FALSE, TRUE, 0)
OrdinalItem == Para(<<"x">>, <<>>, <<>>, FALSE, FALSE, 1)
Punctuation == Para(<<".", ".", ".">>, <<>>, <<>>, FALSE, FALSE, 0)

ConvertParagraphs ==
    { OverviewHeading, OverviewWithImage, OverviewTitle, EmptyHeading, TocDotsBookmarked,
      TocDotsStyled, TocTabStyled, TocTabHeadingStyle, OrdinalItem, Punctuation }

\* The bodies checked: up to MaxDocLen paragraphs, no two alike.
Documents ==
    {d \in SeqsUpTo(ConvertParagraphs, MaxDocLen) :
        /\ d # <<>>
        /\ \A i, j \in 1..Len(d) : i # j => d[i] # d[j]}

ConvertIdle ==
    /\ document = <<>>
    /\ conv_pc = "idle"
    /\ conv_idx = 0
    /\ rendered = <<>>

ConvertInit ==
    /\ document \in Documents
    /\ conv_pc = "scan toc"
    /\ conv_idx = 1
    /\ rendered = <<>>

\* The loop of a pass moves to the next paragraph, or the pass ends.
Advance(next_pc) ==
    IF conv_idx < Len(document)
    THEN conv_idx' = conv_idx + 1 /\ UNCHANGED conv_pc
    ELSE conv_idx' = 1 /\ conv_pc' = next_pc

\* _scan_toc_recursive, lines 3179-3186, for one paragraph
ScanToc ==
    /\ conv_pc = "scan toc"
    /\ LET toc == is_toc_paragraph(document[conv_idx])
       IN  toc_titles' = IF toc.is_toc /\ toc.title_text # <<>>
                         THEN toc_titles \cup {Strip(toc.title_text)}
                         ELSE toc_titles
    /\ Advance("scan headings")
    /\ UNCHANGED <<document, rendered, list_counters, headings_map, paragraph_ids>>
    /\ UNCHANGED OthersOfConvert

\* _scan_headings_recursive, lines 3201-3233, for one paragraph
ScanHeadings ==
    /\ conv_pc = "scan headings"
    /\ LET p == document[conv_idx]
           is_heading == \/ is_heading_from_xml(p)
                         \/ matches_toc_title(toc_titles, text_plain_of(p))
           heading_id == generate_heading_id(p.text)
       IN  IF ~is_toc_paragraph(p).is_toc /\ is_heading
           THEN /\ headings_map' = IF text_plain_of(p) # <<>>
                                   THEN DictSet(headings_map, text_plain_of(p), heading_id)
                                   ELSE headings_map
                /\ paragraph_ids' = Append(paragraph_ids,
                                           [elem |-> conv_idx, id |-> heading_id])
           ELSE UNCHANGED <<headings_map, paragraph_ids>>
    /\ Advance("walk")
    /\ UNCHANGED <<document, rendered, list_counters, toc_titles>>
    /\ UNCHANGED OthersOfConvert

\* process_paragraph, lines 2434-2445 and 2556-2566: the heading fragment
RenderHeading(p) ==
    LET pre == list_prefix(p, list_counters)
        heading_id == IF paragraph_id_of(conv_idx).kind = "str"
                      THEN paragraph_id_of(conv_idx).val
                      ELSE generate_heading_id(p.text)
    IN  /\ list_counters' = pre.counters
        /\ headings_map' = DictSet(headings_map, text_plain_of(p), heading_id)
        /\ rendered' = Append(rendered, Fragment(conv_idx, "heading", StrVal(heading_id),
                                                 NoneVal, pre.prefix))
        /\ UNCHANGED toc_titles

\* process_paragraph, lines 2449-2479: the TOC fragment
RenderToc(p) ==
    LET toc_title == is_toc_paragraph(p).title_text
        heading_id == find_heading_id(headings_map, toc_title)
        link == [hyperlink |-> p.hyperlink, fldSimple |-> <<>>, instrText |-> <<>>]
    IN  /\ toc_titles' = IF toc_title # <<>> THEN toc_titles \cup {Strip(toc_title)}
                         ELSE toc_titles
        /\ rendered' = Append(rendered,
                          Fragment(conv_idx, "toc", NoneVal,
                                   IF /\ heading_id.kind = "str" /\ heading_id.val # <<>>
                                      /\ paragraph_has_hyperlink(link)
                                   THEN heading_id ELSE NoneVal,
                                   NoneVal))
        /\ UNCHANGED <<list_counters, headings_map>>

\* process_paragraph, lines 2185-2353 (a paragraph with floating objects),
\* 2571-2654 (a list paragraph) and 2656-2659 (a plain one): none has an id.
RenderOther(p, role, with_prefix) ==
    LET pre == list_prefix(p, list_counters)
    IN  /\ list_counters' = IF with_prefix THEN pre.counters ELSE list_counters
        /\ rendered' = Append(rendered,
                          Fragment(conv_idx, role, NoneVal, NoneVal,
                                   IF with_prefix THEN pre.prefix ELSE NoneVal))
        /\ UNCHANGED <<toc_titles, headings_map>>

\* _traverse_document_body, line 768: process_paragraph on one paragraph
ProcessParagraph ==
    /\ conv_pc = "walk"
    /\ LET p == document[conv_idx]
       IN  IF p.images THEN RenderOther(p, "image", text_plain_of(p) # <<>>)
           ELSE IF Strip(p.text) = <<>> THEN RenderOther(p, "empty", FALSE)
           ELSE IF is_heading_from_xml(p) THEN RenderHeading(p)
           ELSE IF is_toc_paragraph(p).is_toc THEN RenderToc(p)
           ELSE IF matches_toc_title(toc_titles, text_plain_of(p)) THEN RenderHeading(p)
           ELSE IF p.numId # 0 THEN RenderOther(p, "list", TRUE)
           ELSE RenderOther(p, "plain", FALSE)
    /\ Advance("done")
    /\ UNCHANGED <<document, paragraph_ids>>
    /\ UNCHANGED OthersOfConvert

ConvertNext ==
    \/ ScanToc
    \/ ScanHeadings
    \/ ProcessParagraph

Converted == conv_pc = "done"

\* The body holds the heading "Overview", a TOC paragraph reading
\* "1. Overview....3" and an ordinal list item at level 0, and nothing else.
OverviewDocument ==
    /\ Len(document) = 3
    /\ \E i \in 1..3 : document[i] = OverviewHeading
    /\ \E i \in 1..3 : document[i] = OrdinalItem
    /\ \E i \in 1..3 : document[i].text = TocLineDots

HasId(x) == \E k \in 1..Len(rendered) : rendered[k].id = StrVal(x)
HasHref(x) == \E k \in 1..Len(rendered) : rendered[k].href = StrVal(x)
HasPrefix(x) == \E k \in 1..Len(rendered) : rendered[k].prefix = StrVal(x)

\* C23: converting a document with one heading "Overview", one TOC paragraph
\* reading "1. Overview....3" and one ordinal list item at level 0 gives HTML
\* with an element of id "Overview", a hyperlink to "#Overview" and a
\* rendered "1." list prefix.
C23_EndToEndOverview ==
    (Converted /\ OverviewDocument) =>
        /\ HasId(Overview)
        /\ HasHref(Overview)
        /\ HasPrefix(<<"1", ".">>)

(***************************************************************************)
(* Claims on the anchors of a run                                          *)
(***************************************************************************)
PreScanned == conv_pc \in {"walk", "done"}

\* The cleaned text of the paragraph at position i of the body.
CleanTextAt(i) == text_plain_of(document[i])

\* A rendered heading whose element the pre-scan registered shows the id the
\* pre-scan gave that element.
PreAssignedIdsEmitted ==
    \A k \in 1..Len(rendered), j \in 1..Len(paragraph_ids) :
        (rendered[k].role = "heading" /\ paragraph_ids[j].elem = rendered[k].elem)
            => rendered[k].id = StrVal(paragraph_ids[j].id)

\* Every entry of headings_map holds an anchor given, by the pre-scan or by
\* the main walk, to a heading paragraph with the text of its key.
RegistryPointsAtOwnHeading ==
    \A k \in 1..Len(headings_map) :
        \/ \E j \in 1..Len(paragraph_ids) :
              /\ paragraph_ids[j].id = headings_map[k].id
              /\ CleanTextAt(paragraph_ids[j].elem) = headings_map[k].text
        \/ \E j \in 1..Len(rendered) :
              /\ rendered[j].id = StrVal(headings_map[k].id)
              /\ CleanTextAt(rendered[j].elem) = headings_map[k].text

\* C24 (as claimed): every heading found by the pre-scan is registered under
\* its source element and under its cleaned text, a heading rendered in the
\* main walk shows the anchor the pre-scan gave it, and at the end of the run
\* the text-keyed registry maps every heading text to an anchor given to a
\* heading with that text.
C24_AnchorsStableAsClaimed ==
    /\ PreScanned =>
          \A j \in 1..Len(paragraph_ids) :
              CleanTextAt(paragraph_ids[j].elem) \in MapKeys(headings_map)
    /\ PreAssignedIdsEmitted
    /\ Converted => RegistryPointsAtOwnHeading

\* C24 (amended): as above, with a heading registered under its cleaned text
\* only when that text is not empty.
C24_AnchorsStable ==
    /\ PreScanned =>
          \A j \in 1..Len(paragraph_ids) :
              CleanTextAt(paragraph_ids[j].elem) # <<>>
                  => CleanTextAt(paragraph_ids[j].elem) \in MapKeys(headings_map)
    /\ PreAssignedIdsEmitted
    /\ Converted => RegistryPointsAtOwnHeading

\* A finished run that rendered two headings of the same text, each with the
\* anchor the pre-scan gave it.
C24_Witness ==
    /\ Converted
    /\ \E a, b \in 1..Len(rendered) :
          /\ a # b
          /\ rendered[a].role = "heading" /\ rendered[b].role = "heading"
          /\ CleanTextAt(rendered[a].elem) = CleanTextAt(rendered[b].elem)
          /\ rendered[a].id # rendered[b].id
          /\ \E j \in 1..Len(paragraph_ids) : paragraph_ids[j].elem = rendered[a].elem

(***************************************************************************)
(* Geometry of a shape nested in a drawing                                 *)
(*                                                                         *)
(* extract_image_with_textbox (lines 1383-1446) takes the displayed size   *)
(* of a drawing from its wp:extent and hands it to _get_textbox_position   *)
(* (lines 1866-1957), which places a nested shape by its a:off and a:ext.  *)
(* Lengths are in EMU; SCALE is a whole number here, so every product and  *)
(* quotient the program computes in floating point is exact.               *)
(***************************************************************************)
MaxHalfInches == 3

HalfInch == EmuPerInch \div 2

\* _get_original_image_size, lines 1549-1589, for a drawing with a wp:extent
get_original_image_size(drawing) ==
    IF drawing.cx # 0 /\ drawing.cy # 0
    THEN <<emu_to_pixels(drawing.cx, FALSE), emu_to_pixels(drawing.cy, FALSE)>>
    ELSE <<800, 600>>

\* _get_image_display_size, lines 1486-1534, for a drawing with a wp:extent
get_image_display_size(drawing) ==
    <<emu_to_pixels(drawing.cx, TRUE), emu_to_pixels(drawing.cy, TRUE)>>

\* _get_anchor_offsets, lines 2967-2985
get_anchor_offsets(drawing) ==
    <<emu_to_pixels(drawing.pos_x, TRUE), emu_to_pixels(drawing.pos_y, TRUE)>>

\* int(value * (img_size / original_size)), with 1 for the ratio when the
\* original size is 0 (lines 1883-1884, 1923, 1926)
Rescale(value, img_size, original_size) ==
    IF original_size > 0 THEN (value * img_size) \div original_size ELSE value

\* _get_textbox_position, lines 1866-1957, for a shape inside the drawing
\* (the second case, lines 1914-1931); width and height are whole numbers.
get_textbox_position(shape, img_width, img_height, drawing) ==
    LET original == get_original_image_size(drawing)
    IN  [x |-> Rescale(emu_to_pixels(shape.off_x, TRUE), img_width, original[1]),
         y |-> Rescale(emu_to_pixels(shape.off_y, TRUE), img_height, original[2]),
         width |-> Rescale(emu_to_pixels(shape.cx, TRUE), img_width, original[1]),
         height |-> Rescale(emu_to_pixels(shape.cy, TRUE), img_height, original[2])]

ShapeLengths == {k * HalfInch : k \in 0..MaxHalfInches}

Drawings ==
    [cx : {2 * HalfInch, 4 * HalfInch}, cy : {2 * HalfInch},
     pos_x : {0, HalfInch}, pos_y : {0, HalfInch}]

Shapes ==
    [off_x : ShapeLengths, off_y : ShapeLengths,
     cx : ShapeLengths \ {0}, cy : {HalfInch}]

\* The whole scales _init_scale_to_1200 can store: 1.0 and 2.0.
WholeScales == {<<1, 1>>, <<2, 1>>}

NoDrawing == [cx |-> 0, cy |-> 0, pos_x |-> 0, pos_y |-> 0]
NoShape == [off_x |-> 0, off_y |-> 0, cx |-> 0, cy |-> 0]
NoPosition == [x |-> 0, y |-> 0, width |-> 0, height |-> 0]

GeometryIdle ==
    /\ drawing_elem = NoDrawing
    /\ textbox_elem = NoShape
    /\ display_size = <<0, 0>>
    /\ anchor_offsets = <<0, 0>>
    /\ position = NoPosition

\* A converter was built and left the class attribute at a whole scale.
GeometryInit ==
    /\ SCALE \in WholeScales
    /\ section = [c \in Converters |-> [page_w |-> NoneInt, left_m |-> NoneInt,
                                        right_m |-> NoneInt]]
    /\ phase = [c \in Converters |-> "new"]
    /\ pixels = [c \in Converters |-> NoPixels]
    /\ GeometryIdle

\* extract_image_with_textbox, lines 1383-1446, and the anchor offsets read
\* by extract_images_from_paragraph, for one drawing and one nested shape
PositionShape ==
    /\ drawing_elem = NoDrawing
    /\ \E drawing \in Drawings, shape \in Shapes :
          LET display == get_image_display_size(drawing)
          IN  /\ drawing_elem' = drawing
              /\ textbox_elem' = shape
              /\ display_size' = display
              /\ anchor_offsets' = get_anchor_offsets(drawing)
              /\ position' = get_textbox_position(shape, display[1], display[2], drawing)
    /\ UNCHANGED OthersOfGeometry

GeometryNext == PositionShape

\* int(int(emu * 96 / 914400) * SCALE): the global scale applied once.
ScaledOnce(emu) == PixelsUnder(emu, SCALE)

\* C25: the global scale is applied exactly once to every pixel geometry
\* value: the offset and size of a shape nested in a drawing are its EMU
\* values converted at 96/914400 px per EMU and multiplied once by the global
\* scale, as are the displayed size and the anchor offset of the drawing.
C25_ScaleAppliedOnce ==
    drawing_elem # NoDrawing =>
        /\ display_size = <<ScaledOnce(drawing_elem.cx), ScaledOnce(drawing_elem.cy)>>
        /\ anchor_offsets = <<ScaledOnce(drawing_elem.pos_x), ScaledOnce(drawing_elem.pos_y)>>
        /\ position.x = ScaledOnce(textbox_elem.off_x)
        /\ position.y = ScaledOnce(textbox_elem.off_y)
        /\ position.width = ScaledOnce(textbox_elem.cx)
        /\ position.height = ScaledOnce(textbox_elem.cy)

(***************************************************************************)
(* Claims on the groups of floating objects                                *)
(***************************************************************************)
\* Every object of the paragraph is in exactly one group, once.
GroupsPartitionItems ==
    /\ \A i \in 1..Len(all_items) :
           Cardinality({g \in 1..Len(groups) : i \in SeqToSet(groups[g])}) = 1
    /\ \A g \in 1..Len(groups) :
           /\ SeqToSet(groups[g]) \subseteq 1..Len(all_items)
           /\ Cardinality(SeqToSet(groups[g])) = Len(groups[g])

\* C26: the groups of a paragraph are the connected components of the
\* overlap relation: they partition the objects, and every member of a group
\* of several objects overlaps, within the 5px margin, the box of at least
\* one other member of its group.
C26_GroupsAreConnectedComponents ==
    Extracted =>
        /\ GroupsPartitionItems
        /\ \A g \in 1..Len(groups) :
               Len(groups[g]) > 1 =>
                   \A m \in SeqToSet(groups[g]) :
                       \E n \in SeqToSet(groups[g]) \ {m} :
                           Overlap(all_items[m], all_items[n])

\* The fragments of the final HTML that carry the id x.
ElementsWithId(x) == {k \in 1..Len(rendered) : rendered[k].id = x}

\* C27: referential integrity of TOC links: for every hyperlink to "#X"
\* emitted for a TOC paragraph the final HTML holds exactly one element with
\* id X, also when the target heading paragraph holds a floating image or
\* shape or is empty after extraction.
C27_TocLinksResolve ==
    Converted =>
        \A k \in 1..Len(rendered) :
            (rendered[k].role = "toc" /\ rendered[k].href.kind = "str")
                => Cardinality(ElementsWithId(rendered[k].href)) = 1

(***************************************************************************)
(* The walk over a container and its nested containers                     *)
(* (_traverse_document_body, _should_merge_paragraphs,                     *)
(* _merge_paragraph_elements)                                              *)
(***************************************************************************)
MaxChildren == 3   \* children of the outermost container

\* An XML element as the walk sees it:
\*   tag      "p", "tbl", "txbxContent" or another tag
\*   float    a w:drawing with a wp:anchor at any depth below it
\*   text     a direct w:r with a w:t whose text is not blank
\*   raises   process_paragraph or process_table raises for it
\*   children its child elements (the walk looks at them for other tags only)
Element(tag, float, text, raises, children) ==
    [tag |-> tag, float |-> float, text |-> text, raises |-> raises,
     children |-> children]

FloatWithCaption == Element("p", TRUE, TRUE, FALSE, <<>>)
FloatOnly == Element("p", TRUE, FALSE, FALSE, <<>>)
TextOnly == Element("p", FALSE, TRUE, FALSE, <<>>)
BlankParagraph == Element("p", FALSE, FALSE, FALSE, <<>>)
BadIndentParagraph == Element("p", FALSE, TRUE, TRUE, <<>>)
PlainTable == Element("tbl", FALSE, FALSE, FALSE, <<>>)
BadWidthTable == Element("tbl", FALSE, FALSE, TRUE, <<>>)
BookmarkEnd == Element("bookmarkEnd", FALSE, FALSE, FALSE, <<>>)

TxbxContent(children) == Element("txbxContent", FALSE, FALSE, FALSE, children)
Sdt(children) == Element("sdt", FALSE, FALSE, FALSE, children)

LeafElements ==
    {FloatWithCaption, FloatOnly, TextOnly, BlankParagraph, BadIndentParagraph,
     PlainTable, BadWidthTable, BookmarkEnd}

NestedElements ==
    {TxbxContent(<<FloatWithCaption, FloatOnly>>),
     TxbxContent(<<>>),
     Sdt(<<TextOnly, BadIndentParagraph>>),
     Sdt(<<TxbxContent(<<FloatOnly, FloatOnly>>), PlainTable, BookmarkEnd>>)}

BodyElements == LeafElements \cup NestedElements

Containers ==
    UNION {[1..n -> BodyElements] : n \in 0..MaxChildren}

\* The element at a path of child positions below a list of children.
RECURSIVE ElemIn(_, _)
ElemIn(children, path) ==
    IF Len(path) = 1 THEN children[path[1]]
    ELSE ElemIn(children[path[1]].children, Tail(path))

\* len(body_element) and body_element[i] of the call that walks the element
\* at path; the outermost call walks body_element itself.
ChildrenAt(path) ==
    IF path = <<>> THEN body_element ELSE ElemIn(body_element, path).children

Frame(path, i, parts) == [path |-> path, i |-> i, html_parts |-> parts]
Top == frames[Len(frames)]
Caller == frames[Len(frames) - 1]
Current == ChildrenAt(Top.path)[Top.i]
CurrentPath == Append(Top.path, Top.i)

\* Fragments of html_parts: the HTML of a paragraph (with the paragraphs whose
\* runs were moved into it), of a table, and the two tags around a text box.
ParagraphHtml(path, merged) == [kind |-> "p", src |-> path, merged |-> merged]
TableHtml(path) == [kind |-> "table", src |-> path, merged |-> <<>>]
DivOpen(path) == [kind |-> "<div>", src |-> path, merged |-> <<>>]
DivClose(path) == [kind |-> "</div>", src |-> path, merged |-> <<>>]

Did(path, how, into) == [path |-> path, how |-> how, into |-> into]

\* _should_merge_paragraphs with the test on the later paragraph's direct
\* text left out.
should_merge_any_floating(p1, p2) == p1.float /\ p2.float

\* _should_merge_paragraphs(p1, p2), lines 666-705
should_merge_paragraphs(p1, p2) ==
    IF ~p1.float THEN FALSE
    ELSE IF ~p2.float THEN FALSE
    ELSE IF p2.text THEN FALSE
    ELSE TRUE

\* The inner while loop of lines 748-762: the value of next_idx when it ends.
\* Every later paragraph is tested against elem, the paragraph at i.
RECURSIVE MergeLoop(_, _, _)
MergeLoop(children, i, next_idx) ==
    IF next_idx <= Len(children)
       /\ children[next_idx].tag = "p"
       /\ should_merge_paragraphs(children[i], children[next_idx])
    THEN MergeLoop(children, i, next_idx + 1)
    ELSE next_idx

TreeIdle ==
    /\ body_element = <<>>
    /\ frames = <<>>
    /\ visited = <<>>
    /\ tree_pc = "returned"
    /\ body_html = <<>>

\* _traverse_document_body(body_element), lines 722-728
TreeInit ==
    /\ body_element \in Containers
    /\ frames = <<Frame(<<>>, 1, <<>>)>>
    /\ visited = <<>>
    /\ tree_pc = "walking"
    /\ body_html = <<>>

InLoop ==
    /\ tree_pc = "walking"
    /\ Top.i <= Len(ChildrenAt(Top.path))

SetTop(i, parts) ==
    frames' = [frames EXCEPT ![Len(frames)] = Frame(Top.path, i, parts)]

\* One iteration for a w:p, lines 743-768: the paragraphs that follow and
\* pass _should_merge_paragraphs give their direct runs to elem (lines
\* 707-710) and are skipped; elem is rendered.  An exception of
\* process_paragraph leaves every active call.
VisitParagraph ==
    /\ InLoop
    /\ Current.tag = "p"
    /\ LET children == ChildrenAt(Top.path)
           next_idx == MergeLoop(children, Top.i, Top.i + 1)
           merged == [k \in 1..(next_idx - Top.i - 1) |-> Append(Top.path, Top.i + k)]
           skipped == [k \in 1..Len(merged) |-> Did(merged[k], "merged", CurrentPath)]
       IN  IF Current.raises
           THEN /\ visited' = visited \o <<Did(CurrentPath, "raised", <<>>)>> \o skipped
                /\ SetTop(next_idx, Top.html_parts)
                /\ tree_pc' = "raised"
           ELSE /\ visited' = visited \o <<Did(CurrentPath, "rendered", <<>>)>> \o skipped
                /\ SetTop(next_idx, Append(Top.html_parts, ParagraphHtml(CurrentPath, merged)))
                /\ UNCHANGED tree_pc
    /\ UNCHANGED <<body_element, body_html, OthersOfTree>>

\* One iteration for a w:tbl, lines 771-776.
VisitTable ==
    /\ InLoop
    /\ Current.tag = "tbl"
    /\ IF Current.raises
       THEN /\ visited' = Append(visited, Did(CurrentPath, "raised", <<>>))
            /\ tree_pc' = "raised"
            /\ UNCHANGED frames
       ELSE /\ visited' = Append(visited, Did(CurrentPath, "table", <<>>))
            /\ SetTop(Top.i + 1, Append(Top.html_parts, TableHtml(CurrentPath)))
            /\ UNCHANGED tree_pc
    /\ UNCHANGED <<body_element, body_html, OthersOfTree>>

\* Lines 779-782 and 794-797: the recursive call for a w:txbxContent, and
\* for an element of another tag that has children.
EnterNested ==
    /\ InLoop
    /\ \/ Current.tag = "txbxContent"
       \/ Current.tag \notin {"p", "tbl"} /\ Len(Current.children) > 0
    /\ visited' = Append(visited,
           Did(CurrentPath, IF Current.tag = "txbxContent" THEN "textbox" ELSE "container", <<>>))
    /\ frames' = Append(frames, Frame(CurrentPath, 1, <<>>))
    /\ UNCHANGED <<body_element, tree_pc, body_html, OthersOfTree>>

\* Lines 802-805: an element of another tag without children is skipped.
SkipLeaf ==
    /\ InLoop
    /\ Current.tag \notin {"p", "tbl", "txbxContent"}
    /\ Len(Current.children) = 0
    /\ visited' = Append(visited, Did(CurrentPath, "leaf", <<>>))
    /\ SetTop(Top.i + 1, Top.html_parts)
    /\ UNCHANGED <<body_element, tree_pc, body_html, OthersOfTree>>

\* The nested call returns (line 808) and the caller goes on, lines 783-791
\* for a text box and 798-800 for another element.
ReturnNested ==
    /\ tree_pc = "walking"
    /\ Len(frames) > 1
    /\ Top.i > Len(ChildrenAt(Top.path))
    /\ LET nested_html == Top.html_parts
           of_textbox == ElemIn(body_element, Top.path).tag = "txbxContent"
           parts == IF nested_html = <<>> THEN Caller.html_parts
                    ELSE IF of_textbox
                    THEN Append(Append(Caller.html_parts, DivOpen(Top.path)) \o nested_html,
                                DivClose(Top.path))
                    ELSE Caller.html_parts \o nested_html
       IN  frames' = Append(SubSeq(frames, 1, Len(frames) - 2),
                            Frame(Caller.path, Caller.i + 1, parts))
    /\ UNCHANGED <<body_element, visited, tree_pc, body_html, OthersOfTree>>

\* The outermost call returns html_parts, line 808.
ReturnBody ==
    /\ tree_pc = "walking"
    /\ Len(frames) = 1
    /\ Top.i > Len(body_element)
    /\ tree_pc' = "returned"
    /\ body_html' = Top.html_parts
    /\ UNCHANGED <<body_element, frames, visited, OthersOfTree>>

TreeNext ==
    \/ VisitParagraph
    \/ VisitTable
    \/ EnterNested
    \/ SkipLeaf
    \/ ReturnNested
    \/ ReturnBody

\* The paths of all elements below body_element that a call has as a child.
RECURSIVE PathsIn(_, _)
PathsIn(children, prefix) ==
    UNION {{Append(prefix, k)} \cup
           (IF children[k].tag \in {"p", "tbl"} THEN {}
            ELSE PathsIn(children[k].children, Append(prefix, k))) :
           k \in 1..Len(children)}

\* Document order of two different paths.
RECURSIVE Before(_, _)
Before(p, q) ==
    IF p = <<>> THEN q # <<>>
    ELSE IF q = <<>> THEN FALSE
    ELSE IF p[1] # q[1] THEN p[1] < q[1]
    ELSE Before(Tail(p), Tail(q))

Parent(p) == SubSeq(p, 1, Len(p) - 1)

VisitsOf(p) == {k \in DOMAIN visited : visited[k].path = p}

HowFor(e) ==
    IF e.tag = "p" THEN {"rendered", "merged"}
    ELSE IF e.tag = "tbl" THEN {"table"}
    ELSE IF e.tag = "txbxContent" THEN {"textbox"}
    ELSE IF Len(e.children) > 0 THEN {"container"}
    ELSE {"leaf"}

\* Every child of every container walked was handled once, as its tag asks.
EachChildOnce ==
    /\ \A p \in PathsIn(body_element, <<>>) :
          /\ Cardinality(VisitsOf(p)) = 1
          /\ \A k \in VisitsOf(p) : visited[k].how \in HowFor(ElemIn(body_element, p))
    /\ \A k \in DOMAIN visited : visited[k].path \in PathsIn(body_element, <<>>)

\* A merged paragraph went into the nearest rendered paragraph before it in
\* the same container; both hold an anchored drawing and the merged one has
\* no direct text.
MergedAsClaimed ==
    \A k \in DOMAIN visited :
        visited[k].how = "merged" =>
            LET p == visited[k].path
                t == visited[k].into
            IN  /\ Parent(t) = Parent(p)
                /\ t[Len(t)] < p[Len(p)]
                /\ ElemIn(body_element, t).tag = "p"
                /\ \E j \in VisitsOf(t) : visited[j].how = "rendered"
                /\ \A m \in (t[Len(t)] + 1)..(p[Len(p)] - 1) :
                      \E j \in VisitsOf(Append(Parent(p), m)) : visited[j].how = "merged"
                /\ ElemIn(body_element, t).float
                /\ ElemIn(body_element, p).float
                /\ ~ElemIn(body_element, p).text
                /\ \E f \in DOMAIN body_html :
                      /\ body_html[f].src = t
                      /\ \E n \in DOMAIN body_html[f].merged : body_html[f].merged[n] = p

\* The fragments are those of the rendered paragraphs and tables and the
\* tags of the text boxes, in the order of their source elements.
FragmentsInOrder ==
    LET opened == SelectSeq(body_html, LAMBDA f : f.kind # "</div>")
    IN  /\ \A a, b \in DOMAIN opened : a < b => Before(opened[a].src, opened[b].src)
        /\ \A k \in DOMAIN visited :
              visited[k].how \in {"rendered", "table"} =>
                  \E f \in DOMAIN opened :
                      /\ opened[f].src = visited[k].path
                      /\ opened[f].kind = (IF visited[k].how = "table" THEN "table" ELSE "p")
        /\ \A f \in DOMAIN opened :
              \E k \in VisitsOf(opened[f].src) :
                  visited[k].how \in {"rendered", "table", "textbox"}
        /\ \A a \in DOMAIN body_html :
              body_html[a].kind = "<div>" =>
                  \E b \in DOMAIN body_html :
                      /\ a < b
                      /\ body_html[b] = DivClose(body_html[a].src)
                      /\ \A c \in (a + 1)..(b - 1) :
                            /\ body_html[c].src # body_html[a].src
                            /\ SubSeq(body_html[c].src, 1, Len(body_html[a].src)) = body_html[a].src

VisitedInOrder ==
    \A a, b \in DOMAIN visited : a < b => Before(visited[a].path, visited[b].path)

WalkReturned == body_element # <<>> /\ tree_pc = "returned"

Registered(i) == \E j \in 1..Len(paragraph_ids) : paragraph_ids[j].elem = i

PreAssignedAnchors == {paragraph_ids[j].id : j \in 1..Len(paragraph_ids)}

RegistryAnchors == {headings_map[k].id : k \in 1..Len(headings_map)}

\* C29: every paragraph the main walk renders with an id was registered by
\* the heading pre-scan, and when the run ends the registry holds no anchor
\* that the pre-scan did not assign.
C29_WalkAddsNoAnchor ==
    /\ \A k \in 1..Len(rendered) :
          rendered[k].id.kind = "str" => Registered(rendered[k].elem)
    /\ Converted => RegistryAnchors \subseteq PreAssignedAnchors

\* The paragraphs that only the TOC-title fallback makes a heading.
ByFallbackOnly(i) == ~is_heading_from_xml(document[i])

\* C30: a paragraph that the TOC-title fallback made a heading, in the
\* pre-scan or in the main walk, has a normalized text that is not empty.
C30_FallbackNeedsNormalizedText ==
    /\ \A j \in 1..Len(paragraph_ids) :
          ByFallbackOnly(paragraph_ids[j].elem)
              => norm(CleanTextAt(paragraph_ids[j].elem)) # <<>>
    /\ \A k \in 1..Len(rendered) :
          (rendered[k].role = "heading" /\ ByFallbackOnly(rendered[k].elem))
              => norm(CleanTextAt(rendered[k].elem)) # <<>>

(***************************************************************************)
(* Specifications                                                          *)
(***************************************************************************)
\* Every subsystem starts in the state __init__ leaves (lines 52-68).
Init == ListInit /\ HeadInit /\ StyleIdle /\ ScaleIdle /\ TocIdle /\ WalkIdle /\ ResolveIdle /\ ImageIdle /\ LetterIdle /\ ParaIdle /\ TableIdle /\ LinkIdle /\ RunIdle /\ ConvertIdle /\ GeometryIdle /\ TreeIdle

\* The converter while __init__ runs _load_style_definitions on a catalog.
StyleLoadInit == ListInit /\ HeadInit /\ StyleInit /\ ScaleIdle /\ TocIdle /\ WalkIdle /\ ResolveIdle /\ ImageIdle /\ LetterIdle /\ ParaIdle /\ TableIdle /\ LinkIdle /\ RunIdle /\ ConvertIdle /\ GeometryIdle /\ TreeIdle

\* One process that holds two documents to convert.
TwoRunsInit == ListInit /\ HeadInit /\ StyleIdle /\ ScaleInit /\ TocIdle /\ WalkIdle /\ ResolveIdle /\ ImageIdle /\ LetterIdle /\ ParaIdle /\ TableIdle /\ LinkIdle /\ RunIdle /\ ConvertIdle /\ GeometryIdle /\ TreeIdle

ScaleSpec == TwoRunsInit /\ [][ScaleNext]_vars

StyleSpec == StyleLoadInit /\ [][StyleNext]_vars

ListSpec == Init /\ [][ListNext]_vars

NumSpec == Init /\ [][NumNext]_vars

HeadSpec == Init /\ [][HeadNext]_vars

FindSpec == Init /\ [][FindNext]_vars

TocSpec == Init /\ [][TocNext]_vars

WalkSpec == Init /\ [][WalkNext]_vars

\* A converter whose catalog is loaded.
LoadedInit == ListInit /\ HeadInit /\ ResolveInit /\ ScaleIdle /\ TocIdle /\ WalkIdle /\ ImageIdle /\ LetterIdle /\ ParaIdle /\ TableIdle /\ LinkIdle /\ RunIdle /\ ConvertIdle /\ GeometryIdle /\ TreeIdle

ResolveSpec == LoadedInit /\ [][ResolveNext]_vars

\* A paragraph with drawings reaches process_paragraph.
DrawingsInit == ListInit /\ HeadInit /\ StyleIdle /\ ScaleIdle /\ TocIdle /\ WalkIdle /\ ResolveIdle /\ ImageInit /\ LetterIdle /\ ParaIdle /\ TableIdle /\ LinkIdle /\ RunIdle /\ ConvertIdle /\ GeometryIdle /\ TreeIdle

ImageSpec == DrawingsInit /\ [][ImageNext]_vars

\* An ordinal reaches number_to_letter.
OrdinalInit == ListInit /\ HeadInit /\ StyleIdle /\ ScaleIdle /\ TocIdle /\ WalkIdle /\ ResolveIdle /\ ImageIdle /\ LetterInit /\ ParaIdle /\ TableIdle /\ LinkIdle /\ RunIdle /\ ConvertIdle /\ GeometryIdle /\ TreeIdle

LetterSpec == OrdinalInit /\ [][LetterNext]_vars

\* The main walk renders list paragraphs.
ParaSpec == Init /\ [][ParaNext]_vars

\* A table reaches process_table.
MergedTableInit == ListInit /\ HeadInit /\ StyleIdle /\ ScaleIdle /\ TocIdle /\ WalkIdle /\ ResolveIdle /\ ImageIdle /\ LetterIdle /\ ParaIdle /\ TableInit /\ LinkIdle /\ RunIdle /\ ConvertIdle /\ GeometryIdle /\ TreeIdle

TableSpec == MergedTableInit /\ [][TableNext]_vars

LinkCallsInit == ListInit /\ HeadInit /\ StyleIdle /\ ScaleIdle /\ TocIdle /\ WalkIdle /\ ResolveIdle /\ ImageIdle /\ LetterIdle /\ ParaIdle /\ TableIdle /\ LinkInit /\ RunIdle /\ ConvertIdle /\ GeometryIdle /\ TreeIdle

LinkSpec == LinkCallsInit /\ [][LinkNext]_vars

MainInit == ListInit /\ HeadInit /\ StyleIdle /\ ScaleIdle /\ TocIdle /\ WalkIdle /\ ResolveIdle /\ ImageIdle /\ LetterIdle /\ ParaIdle /\ TableIdle /\ LinkIdle /\ RunInit /\ ConvertIdle /\ GeometryIdle /\ TreeIdle

RunSpec == MainInit /\ [][RunNext]_vars

BodyInit == ListInit /\ HeadInit /\ StyleIdle /\ ScaleIdle /\ TocIdle /\ WalkIdle /\ ResolveIdle /\ ImageIdle /\ LetterIdle /\ ParaIdle /\ TableIdle /\ LinkIdle /\ RunIdle /\ ConvertInit /\ GeometryIdle /\ TreeIdle

ConvertSpec == BodyInit /\ [][ConvertNext]_vars

ShapesInit == ListInit /\ HeadInit /\ StyleIdle /\ GeometryInit /\ TocIdle /\ WalkIdle /\ ResolveIdle /\ ImageIdle /\ LetterIdle /\ ParaIdle /\ TableIdle /\ LinkIdle /\ RunIdle /\ ConvertIdle /\ TreeIdle

GeometrySpec == ShapesInit /\ [][GeometryNext]_vars

\* One call of _traverse_document_body on a container; the loop of the call
\* and of every nested call goes on until it returns or raises.
TreeWalkInit == ListInit /\ HeadInit /\ StyleIdle /\ ScaleIdle /\ TocIdle /\ WalkIdle /\ ResolveIdle /\ ImageIdle /\ LetterIdle /\ ParaIdle /\ TableIdle /\ LinkIdle /\ RunIdle /\ ConvertIdle /\ GeometryIdle /\ TreeInit

TreeSpec == TreeWalkInit /\ [][TreeNext]_vars /\ WF_vars(TreeNext)
=============================================================================
